---- MODULE Spec2Model ----
(***************************************************************************)
(* Project template scheduling and task-dependency engine of the           *)
(* disenyorita portal backend: the template library and plan builder       *)
(* (app/services/project_templates.py) and the in-memory store's           *)
(* multi-project resolver and project update (app/services/data.py).       *)
(*                                                                         *)
(* Dates are whole days counted from the moment the store is constructed   *)
(* (day 0).  An Optional value is a sequence of length 0 (None) or 1.      *)
(* A dict is a function whose DOMAIN is the set of keys.  uuid4() values   *)
(* are tuples that name where the identity was minted.                     *)
(***************************************************************************)
EXTENDS Integers, Sequences, FiniteSets, TLC

VARIABLES templates, projects, clients, task_notifications, clock, call

vars == <<templates, projects, clients, task_notifications, clock, call>>

(***************************************************************************)
(* Bounds of the model                                                     *)
(***************************************************************************)
MaxStart == 1

None == <<>>

Some(v) == <<v>>

IsNone(o) == Len(o) = 0

SetMax(S) == CHOOSE m \in S : \A x \in S : x <= m

SetMin(S) == CHOOSE m \in S : \A x \in S : m <= x

SeqRange(s) == {s[i] : i \in 1..Len(s)}

(***************************************************************************)
(* schemas/projects.py                                                     *)
(***************************************************************************)
TaskStatus == {"todo", "in_progress", "review", "done"}

ProjectStatus == {"planning", "in_progress", "on_hold", "completed", "cancelled"}

\* uuid4() of the i-th object of one kind minted for an owner's generation gen
Uuid(owner, gen, kind, i) == <<owner, gen, kind, i>>

(***************************************************************************)
(* services/project_templates.py : blueprints and templates                *)
(***************************************************************************)
TaskBlueprint(name, duration_days, depends_on) ==
    [name |-> name, duration_days |-> duration_days, depends_on |-> depends_on,
     status |-> "todo"]

MilestoneBlueprint(title, offset_days) == [title |-> title, offset_days |-> offset_days]

ProjectTemplate(code_prefix, tasks, milestones) ==
    [code_prefix |-> code_prefix, tasks |-> tasks, milestones |-> milestones]

WebsiteTemplate ==
    ProjectTemplate("WEB",
        << TaskBlueprint("Project Kickoff", 2, {}),
           TaskBlueprint("Discovery & Strategy", 5, {"Project Kickoff"}),
           TaskBlueprint("Content Architecture", 4, {"Discovery & Strategy"}),
           TaskBlueprint("Visual Design", 7, {"Content Architecture"}),
           TaskBlueprint("Development Sprint", 10, {"Visual Design"}),
           TaskBlueprint("Quality Assurance", 4, {"Development Sprint"}),
           TaskBlueprint("Launch", 1, {"Quality Assurance"}) >>,
        << MilestoneBlueprint("Design Approved", 14),
           MilestoneBlueprint("Website Launched", 33) >>)

BrandingTemplate ==
    ProjectTemplate("BRD",
        << TaskBlueprint("Brand Workshop", 3, {}),
           TaskBlueprint("Audience Research", 6, {"Brand Workshop"}),
           TaskBlueprint("Moodboards", 4, {"Audience Research"}),
           TaskBlueprint("Logo Exploration", 5, {"Moodboards"}),
           TaskBlueprint("Brand Guidelines", 7, {"Logo Exploration"}),
           TaskBlueprint("Handover", 2, {"Brand Guidelines"}) >>,
        << MilestoneBlueprint("Concept Approved", 12),
           MilestoneBlueprint("Guidelines Delivered", 27) >>)

ConsultingTemplate ==
    ProjectTemplate("CON",
        << TaskBlueprint("Initial Assessment", 3, {}),
           TaskBlueprint("Stakeholder Interviews", 5, {"Initial Assessment"}),
           TaskBlueprint("Findings Synthesis", 4, {"Stakeholder Interviews"}),
           TaskBlueprint("Opportunity Mapping", 4, {"Findings Synthesis"}),
           TaskBlueprint("Roadmap Presentation", 2, {"Opportunity Mapping"}) >>,
        << MilestoneBlueprint("Discovery Complete", 10),
           MilestoneBlueprint("Final Presentation", 18) >>)

DEFAULT_TEMPLATES ==
    [id \in {"website", "branding", "consulting"} |->
        CASE id = "website" -> WebsiteTemplate
          [] id = "branding" -> BrandingTemplate
          [] OTHER -> ConsultingTemplate]

\* dict[key] = value
DictSet(d, key, value) == [k \in DOMAIN d \cup {key} |-> IF k = key THEN value ELSE d[k]]

\* dict.pop(key, None)
DictPop(d, key) == [k \in DOMAIN d \ {key} |-> d[k]]

\* _validate_template: "ok", or the error of the first offending blueprint
RECURSIVE ValidateFrom(_, _)
ValidateFrom(template, i) ==
    IF i > Len(template.tasks) THEN "ok"
    ELSE LET blueprint == template.tasks[i]
             task_names == {template.tasks[j].name : j \in 1..Len(template.tasks)}
         IN IF blueprint.duration_days <= 0 THEN "duration"
            ELSE IF blueprint.depends_on \ task_names # {} THEN "unknown_dependency"
            ELSE ValidateFrom(template, i + 1)

_validate_template(template) == ValidateFrom(template, 1)

\* register without the conflict check
RegisterResultNoConflict(tpls, template_id, template, overwrite) ==
    IF template.tasks = <<>> THEN "no_tasks" ELSE _validate_template(template)

\* register: the error raised ("ok" when it returns)
RegisterResult(tpls, template_id, template, overwrite) ==
    IF template.tasks = <<>> THEN "no_tasks"
    ELSE IF ~overwrite /\ template_id \in DOMAIN tpls THEN "exists"
    ELSE _validate_template(template)

\* register that stores the template before validating it
registerStoreFirst(tpls, template_id, template, overwrite) ==
    IF RegisterResult(tpls, template_id, template, overwrite) \in {"no_tasks", "exists"}
    THEN tpls
    ELSE DictSet(tpls, template_id, template)

\* register: the library afterwards
register(tpls, template_id, template, overwrite) ==
    IF RegisterResult(tpls, template_id, template, overwrite) = "ok"
    THEN DictSet(tpls, template_id, template)
    ELSE tpls

unregister(tpls, template_id) == DictPop(tpls, template_id)

\* Task(...) and Milestone(...) of schemas/projects.py
Task(id, name, status, start_date, due_date, dependencies) ==
    [id |-> id, name |-> name, status |-> status, start_date |-> start_date,
     due_date |-> due_date, dependencies |-> dependencies]

Milestone(id, title, due_date) ==
    [id |-> id, title |-> title, due_date |-> due_date, completed |-> FALSE]

\* the loop, were a task anchored at the earliest due date of its prerequisites
RECURSIVE PlanTasksFromEarliest(_, _, _, _, _, _)
PlanTasksFromEarliest(template, start_date, owner, gen, i, acc) ==
    IF i > Len(template.tasks) \/ acc.key_error THEN acc
    ELSE LET blueprint == template.tasks[i]
         IN IF blueprint.depends_on \ DOMAIN acc.completion_lookup # {}
            THEN [acc EXCEPT !.key_error = TRUE]
            ELSE LET dependency_completion ==
                         {acc.completion_lookup[name] : name \in blueprint.depends_on}
                     start_anchor == IF dependency_completion # {}
                                     THEN SetMin(dependency_completion)
                                     ELSE start_date
                     due_date == start_anchor + blueprint.duration_days
                     task == Task(Uuid(owner, gen, "task", i), blueprint.name,
                                  blueprint.status, Some(start_anchor), Some(due_date),
                                  blueprint.depends_on)
                 IN PlanTasksFromEarliest(template, start_date, owner, gen, i + 1,
                        [tasks |-> Append(acc.tasks, task),
                         completion_lookup |->
                             DictSet(acc.completion_lookup, blueprint.name, due_date),
                         key_error |-> FALSE])

\* build_plan, the loop over template.tasks from blueprint i on: acc holds the
\* tasks built so far (dependencies still blueprint names), completion_lookup
\* and whether completion_lookup[name] raised KeyError
RECURSIVE PlanTasksFrom(_, _, _, _, _, _)
PlanTasksFrom(template, start_date, owner, gen, i, acc) ==
    IF i > Len(template.tasks) \/ acc.key_error THEN acc
    ELSE LET blueprint == template.tasks[i]
         IN IF blueprint.depends_on \ DOMAIN acc.completion_lookup # {}
            THEN [acc EXCEPT !.key_error = TRUE]
            ELSE LET dependency_completion ==
                         {acc.completion_lookup[name] : name \in blueprint.depends_on}
                     start_anchor == IF dependency_completion # {}
                                     THEN SetMax(dependency_completion)
                                     ELSE start_date
                     due_date == start_anchor + blueprint.duration_days
                     task == Task(Uuid(owner, gen, "task", i), blueprint.name,
                                  blueprint.status, Some(start_anchor), Some(due_date),
                                  blueprint.depends_on)
                 IN PlanTasksFrom(template, start_date, owner, gen, i + 1,
                        [tasks |-> Append(acc.tasks, task),
                         completion_lookup |->
                             DictSet(acc.completion_lookup, blueprint.name, due_date),
                         key_error |-> FALSE])

\* {task.name: task.id for task in tasks}: the last task of a name wins
NameToId(tasks) ==
    [name \in {tasks[i].name : i \in 1..Len(tasks)} |->
        tasks[SetMax({i \in 1..Len(tasks) : tasks[i].name = name})].id]

\* build_plan(template_id, start_date); owner and gen say where the fresh
\* identities of the plan's tasks and milestones are minted
build_plan(tpls, template_id, start_date, owner, gen) ==
    IF template_id \notin DOMAIN tpls
    THEN [error |-> "unknown_template", tasks |-> <<>>, milestones |-> <<>>]
    ELSE LET template == tpls[template_id]
             built == PlanTasksFrom(template, start_date, owner, gen, 1,
                          [tasks |-> <<>>, completion_lookup |-> <<>>,
                           key_error |-> FALSE])
             name_to_id == NameToId(built.tasks)
         IN IF built.key_error
            THEN [error |-> "KeyError", tasks |-> <<>>, milestones |-> <<>>]
            ELSE [error |-> "ok",
                  tasks |-> [i \in 1..Len(built.tasks) |->
                      [built.tasks[i] EXCEPT !.dependencies =
                          {name_to_id[name] :
                              name \in built.tasks[i].dependencies \cap DOMAIN name_to_id}]],
                  milestones |-> [j \in 1..Len(template.milestones) |->
                      Milestone(Uuid(owner, gen, "milestone", j),
                                template.milestones[j].title,
                                start_date + template.milestones[j].offset_days)]]

\* ProjectTemplateCreateRequest.validate_dependencies and the Field constraints
\* of schemas/project_templates.py: does the request body pass validation
validate_dependencies(template) ==
    LET tasks == template.tasks
        task_names == {tasks[i].name : i \in 1..Len(tasks)}
    IN /\ \A i \in 1..Len(tasks) : tasks[i].duration_days > 0
       /\ \A j \in 1..Len(template.milestones) : template.milestones[j].offset_days >= 0
       /\ Cardinality(task_names) = Len(tasks)
       /\ \A i \in 1..Len(tasks) : tasks[i].depends_on \subseteq task_names

(***************************************************************************)
(* services/data.py : the store after InMemoryStore() (_seed)              *)
(***************************************************************************)
Project(id, name, code, client_id, project_type, status, start_date, end_date, tasks, milestones) ==
    [id |-> id, name |-> name, code |-> code, client_id |-> client_id,
     project_type |-> project_type, status |-> status, start_date |-> start_date,
     end_date |-> end_date, tasks |-> tasks, milestones |-> milestones]

\* _calculate_project_end
_calculate_project_end(tasks, milestones) ==
    LET due_dates == {tasks[i].due_date[1] : i \in {k \in 1..Len(tasks) : ~IsNone(tasks[k].due_date)}}
                     \cup {milestones[j].due_date : j \in 1..Len(milestones)}
    IN IF due_dates = {} THEN None ELSE Some(SetMax(due_dates))

SeedTaskId(i) == Uuid("seed", 0, "task", i)

website_project ==
    Project(1, "Sunset Boutique Website Refresh", <<"DIS-WEB", "2024", 1>>, 1, "website",
        "in_progress", -21, None,
        << Task(SeedTaskId(1), "Discovery Workshop", "done", Some(-32), Some(-27), {}),
           Task(SeedTaskId(2), "Information Architecture", "done", Some(-26), Some(-20),
                {SeedTaskId(1)}),
           Task(SeedTaskId(3), "UX Wireframes", "done", Some(-14), Some(-1),
                {SeedTaskId(2)}),
           Task(SeedTaskId(4), "Booking Engine Integration", "in_progress", Some(-6),
                Some(4), {SeedTaskId(3)}),
           Task(SeedTaskId(5), "Hospitality CMS Enhancements", "todo", Some(-2), Some(6),
                {SeedTaskId(4)}),
           Task(SeedTaskId(6), "Accessibility Review", "review", Some(-5), Some(-1),
                {SeedTaskId(4)}),
           Task(SeedTaskId(7), "Regression QA", "todo", Some(1), Some(10),
                {SeedTaskId(5), SeedTaskId(6)}),
           Task(SeedTaskId(8), "Personalized Offers Experiment", "todo", None, None,
                {SeedTaskId(3)}) >>,
        << Milestone(Uuid("seed", 0, "milestone", 1), "Launch MVP", 14) >>)

audit_project ==
    Project(2, "Harborfront Hotel Audit", <<"ISL-AUD", "2024", 2>>, 1, "consulting",
        "planning", -7, None,
        << Task(SeedTaskId(9), "Operational Audit", "in_progress", Some(-4), Some(3), {}) >>,
        << >>)

SeedProjects == << website_project, audit_project >>

SeedClients == << "Sunset Boutique Hotels", "Aurora Creative Studio" >>

NoCall == [op |-> "none"]

StoreInit ==
    /\ templates = DEFAULT_TEMPLATES
    /\ projects = SeedProjects
    /\ clients = SeedClients
    /\ task_notifications = <<>>
    /\ clock = 0
    /\ call = NoCall

(***************************************************************************)
(* Template library operations                                             *)
(***************************************************************************)
ChainTemplate ==
    ProjectTemplate("CHN", << TaskBlueprint("A", 2, {}), TaskBlueprint("B", 5, {"A"}),
                              TaskBlueprint("C", 4, {"B"}) >>, << >>)

ForkTemplate ==
    ProjectTemplate("FRK", << TaskBlueprint("A", 1, {}), TaskBlueprint("B", 3, {}),
                              TaskBlueprint("C", 2, {"A", "B"}) >>,
                           << MilestoneBlueprint("M", 1) >>)

\* two branches: A alone, and B followed by C
BranchTemplate ==
    ProjectTemplate("BRN", << TaskBlueprint("A", 5, {}), TaskBlueprint("B", 1, {}),
                              TaskBlueprint("C", 1, {"B"}) >>, << >>)

TemplateInputs ==
    { BranchTemplate,
      ProjectTemplate("EMP", << >>, << >>),
      ProjectTemplate("ONE", << TaskBlueprint("A", 1, {}) >>, << >>),
      ChainTemplate,
      ForkTemplate,
      ProjectTemplate("FWD", << TaskBlueprint("A", 1, {"B"}), TaskBlueprint("B", 1, {}) >>,
                             << >>),
      ProjectTemplate("SLF", << TaskBlueprint("A", 1, {"A"}) >>, << >>),
      ProjectTemplate("DUP", << TaskBlueprint("A", 2, {}), TaskBlueprint("B", 1, {"A"}),
                                TaskBlueprint("A", 3, {}) >>, << >>),
      ProjectTemplate("ZER", << TaskBlueprint("A", 0, {}) >>, << >>),
      ProjectTemplate("NEG", << TaskBlueprint("A", 1, {}), TaskBlueprint("B", -1, {"A"}) >>,
                             << >>),
      ProjectTemplate("UNK", << TaskBlueprint("A", 1, {}), TaskBlueprint("B", 1, {"Z"}) >>,
                             << >>) }

TemplateIds == {"website", "custom"}

\* ProjectTemplateLibrary.register called by the service layer
Register(template_id, template, overwrite) ==
    /\ templates' = register(templates, template_id, template, overwrite)
    /\ call' = [op |-> "register", template_id |-> template_id, template |-> template,
                overwrite |-> overwrite, existed |-> template_id \in DOMAIN templates,
                result |-> RegisterResult(templates, template_id, template, overwrite)]
    /\ UNCHANGED <<projects, clients, task_notifications, clock>>

\* POST /project-templates: the request body is validated, then registered
create_project_template(template_id, template, overwrite) ==
    /\ templates' = IF validate_dependencies(template)
                    THEN register(templates, template_id, template, overwrite)
                    ELSE templates
    /\ call' = [op |-> "create_project_template", template_id |-> template_id,
                template |-> template, overwrite |-> overwrite,
                existed |-> template_id \in DOMAIN templates,
                result |-> IF validate_dependencies(template)
                           THEN RegisterResult(templates, template_id, template, overwrite)
                           ELSE "request_validation"]
    /\ UNCHANGED <<projects, clients, task_notifications, clock>>

Unregister(template_id) ==
    /\ templates' = unregister(templates, template_id)
    /\ call' = [op |-> "unregister", template_id |-> template_id,
                existed |-> template_id \in DOMAIN templates]
    /\ UNCHANGED <<projects, clients, task_notifications, clock>>

BuildPlan(template_id, start_date) ==
    /\ call' = [op |-> "build_plan", template_id |-> template_id,
                start_date |-> start_date,
                result |-> build_plan(templates, template_id, start_date, "plan", 0)]
    /\ UNCHANGED <<templates, projects, clients, task_notifications, clock>>

LibNext ==
    \/ \E id \in TemplateIds, t \in TemplateInputs, ow \in BOOLEAN : Register(id, t, ow)
    \/ \E id \in TemplateIds, t \in TemplateInputs, ow \in BOOLEAN :
           create_project_template(id, t, ow)
    \/ \E id \in TemplateIds : Unregister(id)
    \/ \E id \in TemplateIds, d \in 0..MaxStart : BuildPlan(id, d)

SpecLib == StoreInit /\ [][LibNext]_vars

(***************************************************************************)
(* services/data.py : create_client_with_projects                          *)
(***************************************************************************)
MaxSetups == 2

\* ProjectSetup of schemas/clients.py
ProjectSetup(name, template_id, start_date, start_after_name) ==
    [name |-> name, template_id |-> template_id, start_date |-> start_date,
     start_after_name |-> start_after_name]

\* truth value of an Optional[str]
Truthy(o) == ~IsNone(o) /\ o[1] # ""

\* project_code(prefix, sequence): prefix, current year, sequence; the seeded codes
\* "DIS-WEB-2024-01" and "ISL-AUD-2024-02" are kept as the same three parts
project_code(prefix, sequence) == <<prefix, "year", sequence>>

\* _generate_project_code
_generate_project_code(tpls, projs, template_id) ==
    project_code(tpls[template_id].code_prefix,
        Cardinality({i \in 1..Len(projs) : projs[i].project_type = template_id}) + 1)

\* [setup.copy() for setup in payload.projects]: each copy is an object of its
\* own, told apart here by its position in the request
CopySetups(setups) ==
    [i \in 1..Len(setups) |->
        [name |-> setups[i].name, template_id |-> setups[i].template_id,
         start_date |-> setups[i].start_date,
         start_after_name |-> setups[i].start_after_name, index |-> i]]

\* create_client_with_projects without the branding rule
WireNothing(setups) == setups

\* the setups after the branding rule: a website setup without start_after_name
\* starts after the first branding setup
WireBranding(setups) ==
    LET branding == {i \in 1..Len(setups) : setups[i].template_id = "branding"}
        branding_reference == IF branding = {} THEN None
                              ELSE Some(setups[CHOOSE i \in branding :
                                                   \A j \in branding : i <= j].name)
    IN IF Truthy(branding_reference)
       THEN [i \in 1..Len(setups) |->
                IF setups[i].template_id = "website" /\ IsNone(setups[i].start_after_name)
                THEN [setups[i] EXCEPT !.start_after_name = branding_reference]
                ELSE setups[i]]
       ELSE setups

\* list.remove(x): drops the first element equal to x
ListRemove(list, x) ==
    LET first == CHOOSE i \in 1..Len(list) : list[i] = x /\ \A j \in 1..(i - 1) : list[j] # x
    IN [k \in 1..(Len(list) - 1) |-> IF k < first THEN list[k] ELSE list[k + 1]]

\* the pass, were a project started on its requested day once the project it starts
\* after is scheduled
RECURSIVE ResolvePassRequestedStart(_, _, _, _, _, _)
ResolvePassRequestedStart(tpls, known_names, client_id, snapshot, k, st) ==
    IF k > Len(snapshot) \/ st.error # "ok" THEN st
    ELSE LET setup == snapshot[k]
             dependency_name == setup.start_after_name
             next(s) == ResolvePassRequestedStart(tpls, known_names, client_id, snapshot, k + 1, s)
         IN IF Truthy(dependency_name) /\ dependency_name[1] \notin known_names
            THEN [st EXCEPT !.error = "unknown_project"]
            ELSE IF Truthy(dependency_name)
                    /\ dependency_name[1] \notin DOMAIN st.scheduled_completion
            THEN next(st)
            ELSE LET actual_start ==
                         setup.start_date
                     project_id == Len(st.projects) + 1
                     plan == build_plan(tpls, setup.template_id, actual_start, project_id, 0)
                     project_end == _calculate_project_end(plan.tasks, plan.milestones)
                     project == Project(project_id, setup.name,
                                    _generate_project_code(tpls, st.projects, setup.template_id),
                                    client_id, setup.template_id, "planning", actual_start,
                                    project_end, plan.tasks, plan.milestones)
                 IN IF plan.error # "ok"
                    THEN [st EXCEPT !.error = plan.error]
                    ELSE next([pending |-> ListRemove(st.pending, setup),
                               scheduled_completion |->
                                   DictSet(st.scheduled_completion, setup.name,
                                       IF IsNone(project_end) THEN actual_start
                                       ELSE project_end[1]),
                               projects |-> Append(st.projects, project),
                               created_projects |->
                                   Append(st.created_projects,
                                          [id |-> project_id, setup |-> setup.index]),
                               progress_made |-> TRUE,
                               error |-> "ok"])

\* one `for setup in list(pending)` pass from position k of the snapshot; st holds
\* pending, scheduled_completion, the project store, created_projects,
\* progress_made and the error raised
RECURSIVE ResolvePass(_, _, _, _, _, _)
ResolvePass(tpls, known_names, client_id, snapshot, k, st) ==
    IF k > Len(snapshot) \/ st.error # "ok" THEN st
    ELSE LET setup == snapshot[k]
             dependency_name == setup.start_after_name
             next(s) == ResolvePass(tpls, known_names, client_id, snapshot, k + 1, s)
         IN IF Truthy(dependency_name) /\ dependency_name[1] \notin known_names
            THEN [st EXCEPT !.error = "unknown_project"]
            ELSE IF Truthy(dependency_name)
                    /\ dependency_name[1] \notin DOMAIN st.scheduled_completion
            THEN next(st)
            ELSE LET actual_start ==
                         IF Truthy(dependency_name)
                         THEN SetMax({setup.start_date,
                                      st.scheduled_completion[dependency_name[1]]})
                         ELSE setup.start_date
                     project_id == Len(st.projects) + 1
                     plan == build_plan(tpls, setup.template_id, actual_start, project_id, 0)
                     project_end == _calculate_project_end(plan.tasks, plan.milestones)
                     project == Project(project_id, setup.name,
                                    _generate_project_code(tpls, st.projects, setup.template_id),
                                    client_id, setup.template_id, "planning", actual_start,
                                    project_end, plan.tasks, plan.milestones)
                 IN IF plan.error # "ok"
                    THEN [st EXCEPT !.error = plan.error]
                    ELSE next([pending |-> ListRemove(st.pending, setup),
                               scheduled_completion |->
                                   DictSet(st.scheduled_completion, setup.name,
                                       IF IsNone(project_end) THEN actual_start
                                       ELSE project_end[1]),
                               projects |-> Append(st.projects, project),
                               created_projects |->
                                   Append(st.created_projects,
                                          [id |-> project_id, setup |-> setup.index]),
                               progress_made |-> TRUE,
                               error |-> "ok"])

\* the `while pending` loop
RECURSIVE ResolveLoop(_, _, _, _)
ResolveLoop(tpls, known_names, client_id, st) ==
    IF st.pending = << >> \/ st.error # "ok" THEN st
    ELSE LET after == ResolvePass(tpls, known_names, client_id, st.pending, 1,
                          [st EXCEPT !.progress_made = FALSE])
         IN IF after.error = "ok" /\ ~after.progress_made
            THEN [after EXCEPT !.error = "unresolved"]
            ELSE ResolveLoop(tpls, known_names, client_id, after)

\* create_client_with_projects up to the point it returns or raises
ResolveSetups(tpls, projs, client_id, setups) ==
    LET project_setups == WireBranding(CopySetups(setups))
    IN ResolveLoop(tpls, {project_setups[i].name : i \in 1..Len(project_setups)}, client_id,
           [pending |-> project_setups, scheduled_completion |-> << >>,
            projects |-> projs, created_projects |-> << >>,
            progress_made |-> FALSE, error |-> "ok"])

SetupNames == {"", "P", "Q"}

SetupStartDates == {30 * k : k \in 0..MaxStart}

Setups ==
    { ProjectSetup(n, t, d, a) :
        n \in SetupNames, t \in {"branding", "website", "consulting"},
        d \in SetupStartDates, a \in {None, Some("P"), Some("Q")} }

Batches == UNION { [1..n -> Setups] : n \in 1..MaxSetups }

\* POST /clients with a validated ClientCreateRequest in flight
RequestInit ==
    /\ templates = DEFAULT_TEMPLATES
    /\ projects = SeedProjects
    /\ clients = SeedClients
    /\ task_notifications = << >>
    /\ clock = 0
    /\ \E setups \in Batches :
           call = [op |-> "create_client_with_projects", setups |-> setups,
                   result |-> "pending", created_projects |-> << >>]

CreateClientWithProjects ==
    /\ call.op = "create_client_with_projects" /\ call.result = "pending"
    /\ LET done == ResolveSetups(templates, projects, Len(clients) + 1, call.setups)
       IN /\ projects' = done.projects
          /\ clients' = IF done.error = "ok" THEN Append(clients, "client") ELSE clients
          /\ call' = [call EXCEPT !.result = done.error,
                                  !.created_projects = done.created_projects]
    /\ UNCHANGED <<templates, task_notifications, clock>>

SpecResolve == RequestInit /\ [][CreateClientWithProjects]_vars

(***************************************************************************)
(* services/data.py : update_project                                       *)
(***************************************************************************)
NotificationCap == 200

\* a field of a request body: Unset when the body does not carry it
Unset == << >>

IsSet(field) == Len(field) = 1

\* TaskUpdate of schemas/projects.py (the fields the engine reads)
TaskUpdate(id, status, start_date, due_date, dependencies) ==
    [id |-> id, status |-> status, start_date |-> start_date, due_date |-> due_date,
     dependencies |-> dependencies]

\* MilestoneUpdate of schemas/projects.py
MilestoneUpdate(id, due_date, completed) ==
    [id |-> id, due_date |-> due_date, completed |-> completed]

\* ProjectUpdateRequest of schemas/projects.py
ProjectUpdateRequest(name, status, start_date, template_id, tasks, milestones) ==
    [name |-> name, status |-> status, start_date |-> start_date,
     template_id |-> template_id, tasks |-> tasks, milestones |-> milestones]

\* position of the object with this id in a list, 0 when there is none (dict.get)
IndexOfId(list, id) ==
    IF \E i \in 1..Len(list) : list[i].id = id
    THEN CHOOSE i \in 1..Len(list) : list[i].id = id
    ELSE 0

\* the generation of the identities build_plan mints when a template is re-applied
NextGen(project) ==
    1 + SetMax({0} \cup {project.tasks[i].id[2] : i \in 1..Len(project.tasks)}
                   \cup {project.milestones[j].id[2] : j \in 1..Len(project.milestones)})

\* task.copy(update={start_date + delta, due_date + delta})
ShiftTask(task, delta) ==
    [task EXCEPT !.start_date = IF IsNone(@) THEN None ELSE Some(@[1] + delta),
                 !.due_date = IF IsNone(@) THEN None ELSE Some(@[1] + delta)]

\* one task edit, were every change into in_progress stamped with the day of the call
ApplyTaskUpdateRestamp(base, task_update, now) ==
    LET stamp == /\ task_update.status = Some("in_progress")
                 /\ base.status # "in_progress"
                 /\ ~IsSet(task_update.start_date)
    IN [base EXCEPT
           !.status = IF IsSet(task_update.status) THEN task_update.status[1] ELSE @,
           !.start_date = IF IsSet(task_update.start_date) THEN task_update.start_date[1]
                          ELSE IF stamp THEN Some(now) ELSE @,
           !.due_date = IF IsSet(task_update.due_date) THEN task_update.due_date[1] ELSE @,
           !.dependencies = IF IsSet(task_update.dependencies)
                            THEN task_update.dependencies[1] ELSE @]

\* base.copy(update=update_fields) for one task edit
ApplyTaskUpdate(base, task_update, now) ==
    LET stamp == /\ task_update.status = Some("in_progress")
                 /\ base.status # "in_progress"
                 /\ ~IsSet(task_update.start_date)
                 /\ IsNone(base.start_date)
    IN [base EXCEPT
           !.status = IF IsSet(task_update.status) THEN task_update.status[1] ELSE @,
           !.start_date = IF IsSet(task_update.start_date) THEN task_update.start_date[1]
                          ELSE IF stamp THEN Some(now) ELSE @,
           !.due_date = IF IsSet(task_update.due_date) THEN task_update.due_date[1] ELSE @,
           !.dependencies = IF IsSet(task_update.dependencies)
                            THEN task_update.dependencies[1] ELSE @]

\* the task-edit loop, were a completion recorded for every edit that leaves a task
\* done, whether or not the edit changed its status
RECURSIVE ApplyTaskUpdatesAnyDone(_, _, _, _)
ApplyTaskUpdatesAnyDone(task_updates, k, now, st) ==
    IF k > Len(task_updates) THEN st
    ELSE LET task_update == task_updates[k]
             at == IndexOfId(st.tasks, task_update.id)
         IN IF at = 0 THEN ApplyTaskUpdatesAnyDone(task_updates, k + 1, now, st)
            ELSE LET base == st.tasks[at]
                     updated_task == ApplyTaskUpdate(base, task_update, now)
                     changed == base.status # updated_task.status
                 IN ApplyTaskUpdatesAnyDone(task_updates, k + 1, now,
                        [tasks |-> [st.tasks EXCEPT ![at] = updated_task],
                         manual_started_ids |->
                             IF changed /\ updated_task.status = "in_progress"
                             THEN Append(st.manual_started_ids, updated_task.id)
                             ELSE st.manual_started_ids,
                         completed_ids |->
                             IF updated_task.status = "done"
                             THEN Append(st.completed_ids, updated_task.id)
                             ELSE st.completed_ids])

\* the `for task_payload in task_updates` loop from edit k on; st holds the tasks
\* (existing_tasks in ordered_task_ids order), manual_started_ids and completed_ids
RECURSIVE ApplyTaskUpdates(_, _, _, _)
ApplyTaskUpdates(task_updates, k, now, st) ==
    IF k > Len(task_updates) THEN st
    ELSE LET task_update == task_updates[k]
             at == IndexOfId(st.tasks, task_update.id)
         IN IF at = 0 THEN ApplyTaskUpdates(task_updates, k + 1, now, st)
            ELSE LET base == st.tasks[at]
                     updated_task == ApplyTaskUpdate(base, task_update, now)
                     changed == base.status # updated_task.status
                 IN ApplyTaskUpdates(task_updates, k + 1, now,
                        [tasks |-> [st.tasks EXCEPT ![at] = updated_task],
                         manual_started_ids |->
                             IF changed /\ updated_task.status = "in_progress"
                             THEN Append(st.manual_started_ids, updated_task.id)
                             ELSE st.manual_started_ids,
                         completed_ids |->
                             IF changed /\ updated_task.status = "done"
                             THEN Append(st.completed_ids, updated_task.id)
                             ELSE st.completed_ids])

\* the readiness test, were every prerequisite required to have completed in this call
ReadyToStartAllCompleted(tasks, tasks_by_id, index, completed_ids) ==
    LET task == tasks[index]
        dependency_objects ==
            {tasks_by_id[i] : i \in {k \in 1..Len(tasks_by_id) :
                                        tasks_by_id[k].id \in task.dependencies}}
        prior_tasks == {tasks[i] : i \in 1..(index - 1)}
    IN IF task.dependencies # {}
       THEN /\ dependency_objects # {}
            /\ \A dependency \in dependency_objects : dependency.status = "done"
            /\ \A dependency \in dependency_objects : dependency.id \in completed_ids
       ELSE /\ index # 1
            /\ \E previous \in prior_tasks : previous.id \in completed_ids
            /\ \A previous \in prior_tasks : previous.status = "done"

\* the readiness test, were a task without prerequisites started whenever every task
\* before it is done
ReadyToStartPriorDoneOnly(tasks, tasks_by_id, index, completed_ids) ==
    LET task == tasks[index]
        dependency_objects ==
            {tasks_by_id[i] : i \in {k \in 1..Len(tasks_by_id) :
                                        tasks_by_id[k].id \in task.dependencies}}
        prior_tasks == {tasks[i] : i \in 1..(index - 1)}
    IN IF task.dependencies # {}
       THEN /\ dependency_objects # {}
            /\ \A dependency \in dependency_objects : dependency.status = "done"
            /\ \E dependency \in dependency_objects : dependency.id \in completed_ids
       ELSE /\ index # 1
            /\ \A previous \in prior_tasks : previous.status = "done"

\* _auto_start_ready_tasks: may the todo task at position index be started
ReadyToStart(tasks, tasks_by_id, index, completed_ids) ==
    LET task == tasks[index]
        dependency_objects ==
            {tasks_by_id[i] : i \in {k \in 1..Len(tasks_by_id) :
                                        tasks_by_id[k].id \in task.dependencies}}
        prior_tasks == {tasks[i] : i \in 1..(index - 1)}
    IN IF task.dependencies # {}
       THEN /\ dependency_objects # {}
            /\ \A dependency \in dependency_objects : dependency.status = "done"
            /\ \E dependency \in dependency_objects : dependency.id \in completed_ids
       ELSE /\ index # 1
            /\ \E previous \in prior_tasks : previous.id \in completed_ids
            /\ \A previous \in prior_tasks : previous.status = "done"

\* _auto_start_ready_tasks, the `for index, task in enumerate(tasks)` loop from
\* position index on; st holds tasks_by_id (in task order) and auto_started
RECURSIVE AutoStartFrom(_, _, _, _, _)
AutoStartFrom(tasks, completed_ids, now, index, st) ==
    IF index > Len(tasks) THEN st
    ELSE LET task == tasks[index]
         IN IF task.status # "todo"
               \/ ~ReadyToStart(tasks, st.tasks_by_id, index, completed_ids)
            THEN AutoStartFrom(tasks, completed_ids, now, index + 1, st)
            ELSE LET updated_task ==
                         [task EXCEPT !.status = "in_progress",
                                      !.start_date = IF IsNone(@) THEN Some(now) ELSE @]
                 IN AutoStartFrom(tasks, completed_ids, now, index + 1,
                        [tasks_by_id |-> [st.tasks_by_id EXCEPT ![index] = updated_task],
                         auto_started |-> Append(st.auto_started, updated_task)])

\* _auto_start_ready_tasks(tasks, completed_tasks, now): ordered_tasks, auto_started
_auto_start_ready_tasks(tasks, completed_tasks, now) ==
    IF completed_tasks = << >>
    THEN [tasks_by_id |-> tasks, auto_started |-> << >>]
    ELSE AutoStartFrom(tasks, {completed_tasks[i].id : i \in 1..Len(completed_tasks)}, now,
             1, [tasks_by_id |-> tasks, auto_started |-> << >>])

\* the log, were the cap applied by keeping the oldest entries
_record_task_notificationKeepOldest(log, notification) ==
    LET appended == Append(log, notification)
    IN IF Len(appended) > NotificationCap THEN SubSeq(appended, 1, NotificationCap)
       ELSE appended

\* _record_task_notification: append, then keep the last NotificationCap entries
_record_task_notification(log, notification) ==
    LET appended == Append(log, notification)
        drop == IF Len(appended) > NotificationCap THEN Len(appended) - NotificationCap
                ELSE 0
    IN [i \in 1..(Len(appended) - drop) |-> appended[i + drop]]

TaskNotification(project_id, task, type, triggered_at, requires_confirmation) ==
    [project_id |-> project_id, task_id |-> task.id, type |-> type,
     triggered_at |-> triggered_at, requires_confirmation |-> requires_confirmation,
     allow_start_date_edit |-> TRUE,
     suggested_start_date |-> IF IsNone(task.start_date) THEN triggered_at
                              ELSE task.start_date[1]]

RECURSIVE RecordAll(_, _, _, _, _, _)
RecordAll(log, project_id, started, k, type, triggered_at) ==
    IF k > Len(started) THEN log
    ELSE RecordAll(_record_task_notification(log,
                       TaskNotification(project_id, started[k], type, triggered_at,
                                        type = "start_confirmation")),
                   project_id, started, k + 1, type, triggered_at)

\* _emit_task_notifications
_emit_task_notifications(log, project_id, manual_starts, auto_starts, triggered_at) ==
    RecordAll(RecordAll(log, project_id, manual_starts, 1, "start_confirmation",
                        triggered_at),
              project_id, auto_starts, 1, "auto_started", triggered_at)

\* the derivation, were a project with done and todo tasks only still planning
_derive_project_status_from_tasksOpenOnly(tasks) ==
    LET statuses == {tasks[i].status : i \in 1..Len(tasks)}
    IN IF tasks = << >> THEN "planning"
       ELSE IF \A status \in statuses : status = "done" THEN "completed"
       ELSE IF \E status \in statuses : status \in {"in_progress", "review"}
       THEN "in_progress"
       ELSE "planning"

\* _derive_project_status_from_tasks
_derive_project_status_from_tasks(tasks) ==
    LET statuses == {tasks[i].status : i \in 1..Len(tasks)}
    IN IF tasks = << >> THEN "planning"
       ELSE IF \A status \in statuses : status = "done" THEN "completed"
       ELSE IF \E status \in statuses : status \in {"in_progress", "review"}
       THEN "in_progress"
       ELSE IF \E status \in statuses : status = "done" THEN "in_progress"
       ELSE "planning"

\* the `for milestone_update in milestone_updates` loop: payload.dict() has turned
\* every milestone edit into a dict, so reading milestone_update.id raises
\* AttributeError on the first edit; only an empty list passes
MilestoneLoopRaises(milestone_updates) == milestone_updates # << >>

\* [lookup_after_updates[task_id] for task_id in ids]
TasksOfIds(tasks, ids) == [i \in 1..Len(ids) |-> tasks[IndexOfId(tasks, ids[i])]]

\* what update_project hands back when it raises: nothing stored, nothing logged
Raised(error, log, project) ==
    [error |-> error, project |-> project, log |-> log, edited_tasks |-> project.tasks,
     manual_started_ids |-> << >>, completed_ids |-> << >>, auto_started_ids |-> << >>]

\* update_project, lines 771-798: the tasks and milestones the edits start from,
\* rebuilt from a template, shifted with the start date, or as stored
PlanOrShift(tpls, project, payload) ==
    LET reapply == IsSet(payload.template_id) /\ payload.template_id[1] # ""
        start_date == IF IsSet(payload.start_date) THEN payload.start_date[1]
                      ELSE project.start_date
        delta == start_date - project.start_date
        shift == ~reapply /\ IsSet(payload.start_date) /\ delta # 0
    IN IF reapply
       THEN [reapply |-> TRUE, start_date |-> start_date] @@
            build_plan(tpls, payload.template_id[1], start_date, project.id,
                       NextGen(project))
       ELSE [reapply |-> FALSE, start_date |-> start_date, error |-> "ok",
             tasks |-> IF shift
                       THEN [i \in 1..Len(project.tasks) |->
                                ShiftTask(project.tasks[i], delta)]
                       ELSE project.tasks,
             milestones |-> IF shift
                            THEN [j \in 1..Len(project.milestones) |->
                                     [project.milestones[j] EXCEPT !.due_date = @ + delta]]
                            ELSE project.milestones]

\* update_project, lines 800-836: the task edits of the request applied in order
EditedTasks(payload, at, tasks) ==
    IF IsSet(payload.tasks)
    THEN ApplyTaskUpdates(payload.tasks[1], 1, at,
             [tasks |-> tasks, manual_started_ids |-> << >>, completed_ids |-> << >>])
    ELSE [tasks |-> tasks, manual_started_ids |-> << >>, completed_ids |-> << >>]

\* update_project, lines 874-895: notifications, re-derivation, storing
Finish(log, project, payload, at, planned, edited, cascade) ==
    LET structural == \/ planned.reapply \/ IsSet(payload.start_date)
                      \/ IsSet(payload.tasks) \/ IsSet(payload.milestones)
                      \/ cascade.auto_started # << >>
        manual_started_tasks == TasksOfIds(edited.tasks, edited.manual_started_ids)
    IN [error |-> "ok",
        project |->
            [project EXCEPT
                !.name = IF IsSet(payload.name) THEN payload.name[1] ELSE @,
                !.project_type = IF planned.reapply THEN payload.template_id[1] ELSE @,
                !.start_date = planned.start_date,
                !.tasks = IF structural THEN cascade.tasks_by_id ELSE @,
                !.milestones = IF structural THEN planned.milestones ELSE @,
                !.end_date = IF structural
                             THEN _calculate_project_end(cascade.tasks_by_id,
                                                         planned.milestones)
                             ELSE @,
                !.status = IF IsSet(payload.status) THEN payload.status[1]
                           ELSE IF structural
                           THEN _derive_project_status_from_tasks(cascade.tasks_by_id)
                           ELSE @],
        log |-> IF manual_started_tasks # << >> \/ cascade.auto_started # << >>
                THEN _emit_task_notifications(log, project.id, manual_started_tasks,
                         cascade.auto_started, at)
                ELSE log,
        edited_tasks |-> edited.tasks,
        manual_started_ids |-> edited.manual_started_ids,
        completed_ids |-> edited.completed_ids,
        auto_started_ids |-> [i \in 1..Len(cascade.auto_started) |->
                                 cascade.auto_started[i].id]]

\* update_project, lines 838-872: the cascade after the edits, then the milestone
\* edits
CascadeAndMilestones(log, project, payload, at, planned, edited) ==
    IF IsSet(payload.milestones) /\ MilestoneLoopRaises(payload.milestones[1])
    THEN Raised("AttributeError", log, project)
    ELSE Finish(log, project, payload, at, planned, edited,
             _auto_start_ready_tasks(edited.tasks,
                 TasksOfIds(edited.tasks, edited.completed_ids), at))

\* update_project from the task edits on, given the plan the edits start from
EditAndCascade(log, project, payload, at, planned) ==
    IF planned.error # "ok" THEN Raised(planned.error, log, project)
    ELSE CascadeAndMilestones(log, project, payload, at, planned,
             EditedTasks(payload, at, planned.tasks))

\* update_project on a stored project: the error raised ("ok" when it returns),
\* the updated project, the notification log afterwards and what the call recorded
update_project(tpls, log, project, payload, at) ==
    EditAndCascade(log, project, payload, at, PlanOrShift(tpls, project, payload))


(***************************************************************************)
(* PATCH /projects/{project_id} on a store that holds, besides the seeded  *)
(* projects, one project created from a registered custom template         *)
(***************************************************************************)
MaxNow == 2

MaxEdits == 2

\* a chain whose first blueprint is declared with status done
StartedChainTemplate ==
    ProjectTemplate("SCH", << [TaskBlueprint("A", 2, {}) EXCEPT !.status = "done"],
                              TaskBlueprint("B", 5, {"A"}),
                              TaskBlueprint("C", 4, {"B"}) >>, << >>)

UpdateTemplates == {ChainTemplate, ForkTemplate, StartedChainTemplate}

CustomProjectId == Len(SeedProjects) + 1

UpdateInit ==
    /\ \E template \in UpdateTemplates :
           /\ templates = register(DEFAULT_TEMPLATES, "custom", template, FALSE)
           /\ projects = ResolveSetups(templates, SeedProjects, Len(SeedClients) + 1,
                             << ProjectSetup("P", "custom", 0, None) >>).projects
    /\ clients = Append(SeedClients, "client")
    /\ task_notifications = << >>
    /\ clock = 0
    /\ call = NoCall

\* what a call leaves in `call`
UpdateCall(project_id, payload, at, before, r) ==
    [op |-> "update_project", project_id |-> project_id, payload |-> payload,
     at |-> at, result |-> r.error, notifications_before |-> before,
     edited_tasks |-> r.edited_tasks, manual_started_ids |-> r.manual_started_ids,
     completed_ids |-> r.completed_ids, auto_started_ids |-> r.auto_started_ids]

\* self.projects[project_id] = updated_project, and the log the call leaves
StoreUpdated(project_id, payload, r) ==
    /\ projects' = [projects EXCEPT ![project_id] = r.project]
    /\ task_notifications' = r.log
    /\ call' = UpdateCall(project_id, payload, clock + 1, Len(task_notifications), r)

\* update_project(project_id, payload) called on day clock + 1
UpdateProject(project_id, payload) ==
    /\ clock < MaxNow
    /\ clock' = clock + 1
    /\ IF project_id \in 1..Len(projects)
       THEN StoreUpdated(project_id, payload,
                update_project(templates, task_notifications, projects[project_id],
                               payload, clock + 1))
       ELSE /\ call' = UpdateCall(project_id, payload, clock + 1,
                           Len(task_notifications),
                           [Raised("not_found", << >>, [tasks |-> << >>])
                               EXCEPT !.edited_tasks = << >>])
            /\ UNCHANGED <<projects, task_notifications>>
    /\ UNCHANGED <<templates, clients>>

NoUpdate == ProjectUpdateRequest(Unset, Unset, Unset, Unset, Unset, Unset)

StatusEdit(id, status) == TaskUpdate(id, Some(status), Unset, Unset, Unset)

CustomTaskId(i) == Uuid(CustomProjectId, 0, "task", i)

UnknownTaskId == Uuid(0, 0, "task", 0)

\* the task edits submitted: complete a task of the custom project, reopen its first
\* task, clear the start date of its last task, complete a task that does not exist
TaskEdits ==
    { StatusEdit(CustomTaskId(i), "done") : i \in 1..3 }
    \cup { StatusEdit(CustomTaskId(1), "todo"),
           TaskUpdate(CustomTaskId(3), Unset, Some(None), Unset, Unset),
           StatusEdit(UnknownTaskId, "done") }

TaskEditBatches == UNION { [1..n -> TaskEdits] : n \in 0..MaxEdits }

EditTasks ==
    \E task_updates \in TaskEditBatches :
        UpdateProject(CustomProjectId, [NoUpdate EXCEPT !.tasks = Some(task_updates)])

Rename ==
    \E project_id \in 1..(Len(projects) + 1) :
        UpdateProject(project_id, [NoUpdate EXCEPT !.name = Some("Renamed")])

UpdateNext == EditTasks \/ Rename

SpecUpdate == UpdateInit /\ [][UpdateNext]_vars


(***************************************************************************)
(* Properties of update_project                                            *)
(***************************************************************************)
UpdateReturned == call.op = "update_project" /\ call.result = "ok"

SeqSet(list) == {list[i] : i \in 1..Len(list)}

\* the notifications the last call appended to the log
Appended ==
    IF Len(task_notifications) >= call.notifications_before
    THEN SubSeq(task_notifications, call.notifications_before + 1, Len(task_notifications))
    ELSE << >>

AutoStartedNotices(task_id) ==
    Cardinality({i \in 1..Len(Appended) : /\ Appended[i].type = "auto_started"
                                          /\ Appended[i].task_id = task_id})

\* the task is in progress after the call, started on the date it carried after the
\* edits or, without one, on the day of the call, and announced exactly once
StartedByCascade(edited_task, task) ==
    /\ task.status = "in_progress"
    /\ task.start_date = IF IsNone(edited_task.start_date) THEN Some(call.at)
                         ELSE edited_task.start_date
    /\ AutoStartedNotices(task.id) = 1

StatusAfterEdits(id) ==
    IF IndexOfId(call.edited_tasks, id) = 0 THEN "missing"
    ELSE call.edited_tasks[IndexOfId(call.edited_tasks, id)].status

\* after the edits the task at position i is todo, lists the completed task d and
\* its other prerequisites are done
AwaitsOnly(i, d) ==
    LET task == call.edited_tasks[i]
    IN /\ task.status = "todo"
       /\ d \in task.dependencies
       /\ \A other \in task.dependencies \ {d} : StatusAfterEdits(other) = "done"

\* C2 as stated: when an edit of the call changed a task's status into done, every
\* todo task that lists it as a prerequisite and whose other prerequisites are done
\* is in progress after the call, with a start date (its own, else the day of the
\* call) and exactly one auto_started notification appended
C2_CompletionStartsDependents ==
    UpdateReturned =>
        \A i \in 1..Len(call.edited_tasks) : \A d \in SeqSet(call.completed_ids) :
            AwaitsOnly(i, d) =>
                StartedByCascade(call.edited_tasks[i], projects[call.project_id].tasks[i])

\* C2 amended: the same, for a completed task that is still done once all the edits
\* of the call are applied
C2_StandingCompletionStartsDependents ==
    UpdateReturned =>
        \A i \in 1..Len(call.edited_tasks) : \A d \in SeqSet(call.completed_ids) :
            (AwaitsOnly(i, d) /\ StatusAfterEdits(d) = "done") =>
                StartedByCascade(call.edited_tasks[i], projects[call.project_id].tasks[i])

\* a dependent without start date was started by the completion of its prerequisite
C2_Witness ==
    /\ UpdateReturned
    /\ \E i \in 1..Len(call.edited_tasks) : \E d \in SeqSet(call.completed_ids) :
           /\ AwaitsOnly(i, d)
           /\ StatusAfterEdits(d) = "done"
           /\ IsNone(call.edited_tasks[i].start_date)
           /\ projects[call.project_id].tasks[i].start_date = Some(call.at)
           /\ projects[call.project_id].tasks[i].status = "in_progress"

\* the status the task of edit k has when that edit is applied
PriorStatus(tasks, task_updates, k) ==
    LET earlier == {j \in 1..(k - 1) : /\ task_updates[j].id = task_updates[k].id
                                       /\ IsSet(task_updates[j].status)}
    IN IF earlier = {} THEN tasks[IndexOfId(tasks, task_updates[k].id)].status
       ELSE task_updates[SetMax(earlier)].status[1]

\* no edit of the request changes the status of a task of the project into done
NoEditIntoDone(project, payload) ==
    IsSet(payload.tasks) =>
        \A k \in 1..Len(payload.tasks[1]) :
            \/ payload.tasks[1][k].status # Some("done")
            \/ IndexOfId(project.tasks, payload.tasks[1][k].id) = 0
            \/ PriorStatus(project.tasks, payload.tasks[1], k) = "done"

\* the request is the single edit `status: done` of a task that is already done
IsResubmission(project, payload) ==
    /\ IsSet(payload.tasks)
    /\ Len(payload.tasks[1]) = 1
    /\ payload.tasks[1][1] = StatusEdit(payload.tasks[1][1].id, "done")
    /\ IndexOfId(project.tasks, payload.tasks[1][1].id) # 0
    /\ project.tasks[IndexOfId(project.tasks, payload.tasks[1][1].id)].status = "done"

TaskStatuses(project) == [i \in 1..Len(project.tasks) |-> project.tasks[i].status]

\* C3: an update in which no edit changes a task's status into done starts no task
\* by cascade and appends no auto_started notification; re-submitting `status: done`
\* for a task that is already done leaves task statuses and notification log as
\* they were
C3_NoCompletionNoCascade ==
    [][(/\ call'.op = "update_project"
        /\ call'.result = "ok"
        /\ ~IsSet(call'.payload.template_id)
        /\ NoEditIntoDone(projects[call'.project_id], call'.payload))
       => LET before == projects[call'.project_id]
              after == projects'[call'.project_id]
          IN /\ call'.auto_started_ids = << >>
             /\ \A i \in 1..Len(before.tasks) :
                    (before.tasks[i].status = "todo" /\ after.tasks[i].status # "todo")
                        => \E k \in 1..Len(call'.payload.tasks[1]) :
                               /\ call'.payload.tasks[1][k].id = before.tasks[i].id
                               /\ IsSet(call'.payload.tasks[1][k].status)
             /\ \A n \in (Len(task_notifications) + 1)..Len(task_notifications') :
                    task_notifications'[n].type # "auto_started"
             /\ IsResubmission(before, call'.payload)
                    => /\ TaskStatuses(after) = TaskStatuses(before)
                       /\ task_notifications' = task_notifications]_vars

\* the second call re-submitted the completion of the first task, whose dependent
\* the first call had started
C3_Witness ==
    /\ UpdateReturned
    /\ call.at = 2
    /\ call.payload.tasks = Some(<< StatusEdit(CustomTaskId(1), "done") >>)
    /\ call.completed_ids = << >>
    /\ \E n \in 1..Len(task_notifications) :
           /\ task_notifications[n].type = "auto_started"
           /\ task_notifications[n].triggered_at = 1
    /\ projects[CustomProjectId].tasks[1].status = "done"
    /\ projects[CustomProjectId].tasks[2].status = "in_progress"

DueDates(project) ==
    {project.tasks[i].due_date[1] :
        i \in {k \in 1..Len(project.tasks) : ~IsNone(project.tasks[k].due_date)}}
    \cup {project.milestones[j].due_date : j \in 1..Len(project.milestones)}

\* C4: a project created by the resolver, or one that a returned update_project call
\* was applied to, has as end_date the maximum due date over its tasks and
\* milestones, and None only when there is no due date at all
C4_EndDateIsMaxDue ==
    \A i \in 1..Len(projects) :
        (i > Len(SeedProjects) \/ (UpdateReturned /\ call.project_id = i))
            => projects[i].end_date = IF DueDates(projects[i]) = {} THEN None
                                      ELSE Some(SetMax(DueDates(projects[i])))

(***************************************************************************)
(* Properties of the template library and the plan builder                 *)
(***************************************************************************)
BlueprintNames(template) == {template.tasks[i].name : i \in 1..Len(template.tasks)}

HasNonPositiveDuration(template) ==
    \E i \in 1..Len(template.tasks) : template.tasks[i].duration_days <= 0

HasUnknownDependency(template) ==
    \E i \in 1..Len(template.tasks) :
        ~(template.tasks[i].depends_on \subseteq BlueprintNames(template))

HasDuplicateNames(template) == Cardinality(BlueprintNames(template)) # Len(template.tasks)

IsRegistration(c) == c.op \in {"register", "create_project_template"}

PlanReturned == call.op = "build_plan" /\ call.result.error = "ok"

\* the due dates of the tasks of a plan that a task lists as dependencies
PrerequisiteDues(tasks, task) ==
    {tasks[j].due_date[1] : j \in {k \in 1..Len(tasks) : tasks[k].id \in task.dependencies}}

ChainTasks ==
    << TaskBlueprint("A", 2, {}), TaskBlueprint("B", 5, {"A"}), TaskBlueprint("C", 4, {"B"}) >>

\* C6: in every plan build_plan returns, each task starts at the latest due
\* date of its prerequisite tasks (at start_date when it has none) and is due
\* that anchor plus its blueprint's duration; the chain A(2) -> B(5) -> C(4)
\* started at day 0 is due on days 2, 7, 11 and ends on day 11.
C6_AnchorIsMaxPrerequisiteDue ==
    PlanReturned =>
        LET tasks == call.result.tasks
            template == templates[call.template_id]
        IN /\ \A i \in 1..Len(tasks) :
                  LET anchor == IF tasks[i].dependencies = {}
                                THEN call.start_date
                                ELSE SetMax(PrerequisiteDues(tasks, tasks[i]))
                  IN /\ tasks[i].start_date = Some(anchor)
                     /\ tasks[i].due_date = Some(anchor + template.tasks[i].duration_days)
           /\ (template.tasks = ChainTasks /\ call.start_date = 0) =>
                  /\ [i \in 1..3 |-> tasks[i].due_date] = << Some(2), Some(7), Some(11) >>
                  /\ _calculate_project_end(tasks, call.result.milestones) = Some(11)

\* C7: every registered template can be built: its declaration order is a
\* topological order of its dependencies and build_plan on its id returns a plan.
C7_RegisteredTemplateBuilds ==
    /\ \A id \in DOMAIN templates :
           \A i \in 1..Len(templates[id].tasks) :
               templates[id].tasks[i].depends_on \subseteq
                   {templates[id].tasks[j].name : j \in 1..(i - 1)}
    /\ (call.op = "build_plan" /\ call.template_id \in DOMAIN templates) =>
           call.result.error = "ok"

\* C8: a registration whose template has a blueprint of non-positive duration
\* or a dependency naming no blueprint of the template raises an error and
\* leaves the library exactly as it was.
C8_InvalidTemplateRegistersNothing ==
    [][ (/\ IsRegistration(call')
         /\ \/ HasNonPositiveDuration(call'.template)
            \/ HasUnknownDependency(call'.template))
        => (call'.result # "ok" /\ templates' = templates) ]_vars

C8_Witness ==
    /\ call.op = "register"
    /\ call.overwrite /\ call.existed
    /\ HasNonPositiveDuration(call.template) \/ HasUnknownDependency(call.template)
    /\ call.result \in {"duration", "unknown_dependency"}
    /\ templates[call.template_id] # call.template

\* C9: a template with two blueprints of the same name is never registered:
\* no template of the library holds two task blueprints with the same name.
C9_NoDuplicateBlueprintNames ==
    \A id \in DOMAIN templates : ~HasDuplicateNames(templates[id])

\* C10: register without overwrite on an existing id fails (with the conflict
\* error whenever the template has a task) and changes nothing; register with
\* overwrite of a template that passes validation on an existing id stores the
\* new template under that id only; unregister removes exactly that id, and
\* changes nothing when the id is absent.
C10_ConflictOverwriteUnregister ==
    [][ /\ (call'.op = "register" /\ ~call'.overwrite /\ call'.existed) =>
              /\ call'.result # "ok"
              /\ call'.template.tasks # << >> => call'.result = "exists"
              /\ templates' = templates
        /\ (/\ call'.op = "register" /\ call'.overwrite /\ call'.existed
            /\ call'.template.tasks # << >>
            /\ ~HasNonPositiveDuration(call'.template)
            /\ ~HasUnknownDependency(call'.template)) =>
              /\ call'.result = "ok"
              /\ templates' = DictSet(templates, call'.template_id, call'.template)
        /\ call'.op = "unregister" =>
              /\ DOMAIN templates' = DOMAIN templates \ {call'.template_id}
              /\ \A id \in DOMAIN templates' : templates'[id] = templates[id]
              /\ ~call'.existed => templates' = templates ]_vars

C10_Witness ==
    /\ call.op = "register" /\ call.overwrite /\ call.existed /\ call.result = "ok"
    /\ call.template_id = "website"
    /\ templates["website"] = call.template
    /\ templates["website"] # WebsiteTemplate

(***************************************************************************)
(* Properties of the multi-project resolver                                *)
(***************************************************************************)
Resolved == call.op = "create_client_with_projects" /\ call.result # "pending"

\* C1: a call that fails on an unknown start-after name or on a pass without
\* progress leaves the project store and the client store as they were.
C1_FailedBatchStoresNothing ==
    [][ call'.result \in {"unknown_project", "unresolved"} =>
            (projects' = projects /\ clients' = clients) ]_vars

\* the created website projects whose setup carries no start-after reference,
\* and the created branding projects
ImplicitWebsites ==
    {c \in SeqRange(call.created_projects) :
        /\ call.setups[c.setup].template_id = "website"
        /\ IsNone(call.setups[c.setup].start_after_name)}

Brandings ==
    {c \in SeqRange(call.created_projects) : call.setups[c.setup].template_id = "branding"}

StartsAfterEnd(w, b) ==
    /\ projects[w.id].start_date >= projects[b.id].end_date[1]
    /\ \A i \in 1..Len(projects[w.id].tasks) :
           projects[w.id].tasks[i].due_date[1] >= projects[b.id].end_date[1]

FirstBrandingSetup ==
    CHOOSE i \in 1..Len(call.setups) :
        /\ call.setups[i].template_id = "branding"
        /\ \A j \in 1..(i - 1) : call.setups[j].template_id # "branding"

MaxPushes == 210

\* self._record_task_notification(notification) for a notification built on day
\* clock + 1 about the task in progress of the seeded audit project
RecordNotification ==
    /\ clock < MaxPushes
    /\ clock' = clock + 1
    /\ task_notifications' =
           _record_task_notification(task_notifications,
               TaskNotification(audit_project.id, audit_project.tasks[1], "auto_started",
                                clock + 1, FALSE))
    /\ call' = [op |-> "_record_task_notification", at |-> clock + 1, result |-> "ok"]
    /\ UNCHANGED <<templates, projects, clients>>

SpecNotify == StoreInit /\ [][RecordNotification]_vars

Min(a, b) == IF a < b THEN a ELSE b

\* C11: the log never holds more than 200 entries; after n recorded notifications
\* it holds the most recent min(n, 200) of them in the order recorded
C11_LogKeepsMostRecent ==
    /\ Len(task_notifications) = Min(clock, 200)
    /\ \A i \in 1..Len(task_notifications) :
           task_notifications[i].triggered_at = clock - Len(task_notifications) + i

\* 210 notifications were recorded: the log holds 200, the oldest being the 11th
C11_Witness ==
    /\ clock = 210
    /\ Len(task_notifications) = 200
    /\ task_notifications[1].triggered_at = 11
    /\ task_notifications[200].triggered_at = 210

(***************************************************************************)
(* PATCH /projects/{project_id} with the other request shapes: manual      *)
(* starts, dependency edits, a supplied status, milestone edits, a start   *)
(* date shift and a template re-application                                 *)
(***************************************************************************)
\* first task declared done, second without prerequisites, third after the second
HeadDoneTemplate ==
    ProjectTemplate("HDN", << [TaskBlueprint("A", 2, {}) EXCEPT !.status = "done"],
                              TaskBlueprint("B", 5, {}),
                              TaskBlueprint("C", 4, {"B"}) >>, << >>)

PatchTemplates == {ChainTemplate, ForkTemplate, HeadDoneTemplate}

PatchInit ==
    /\ \E template \in PatchTemplates :
           /\ templates = register(DEFAULT_TEMPLATES, "custom", template, FALSE)
           /\ projects = ResolveSetups(templates, SeedProjects, Len(SeedClients) + 1,
                             << ProjectSetup("P", "custom", 0, None) >>).projects
    /\ clients = Append(SeedClients, "client")
    /\ task_notifications = << >>
    /\ clock = 0
    /\ call = NoCall

DependenciesEdit(id, dependencies) ==
    TaskUpdate(id, Unset, Unset, Unset, Some(dependencies))

\* the task edit lists submitted
PatchTaskBatches ==
    { << >>,
      << StatusEdit(CustomTaskId(2), "in_progress") >>,
      << StatusEdit(CustomTaskId(2), "in_progress"), StatusEdit(CustomTaskId(2), "todo"),
         StatusEdit(CustomTaskId(2), "in_progress") >>,
      << StatusEdit(CustomTaskId(2), "in_progress"), StatusEdit(CustomTaskId(2), "todo"),
         StatusEdit(CustomTaskId(1), "done") >>,
      << StatusEdit(UnknownTaskId, "done"), StatusEdit(CustomTaskId(1), "in_progress") >>,
      << DependenciesEdit(CustomTaskId(3), {UnknownTaskId}) >>,
      << DependenciesEdit(CustomTaskId(3), {CustomTaskId(1)}) >>,
      << StatusEdit(CustomTaskId(1), "done") >>,
      << StatusEdit(CustomTaskId(2), "done"), StatusEdit(CustomTaskId(3), "done") >>,
      << StatusEdit(CustomTaskId(1), "review") >>,
      << DependenciesEdit(CustomTaskId(3), {CustomTaskId(1), UnknownTaskId}) >>,
      << StatusEdit(CustomTaskId(3), "done") >>,
      << TaskUpdate(CustomTaskId(2), Unset, Some(None), Unset, Unset) >> }

CustomMilestoneId == Uuid(CustomProjectId, 0, "milestone", 1)

UnknownMilestoneId == Uuid(0, 0, "milestone", 0)

\* the milestone edit lists submitted
PatchMilestoneBatches ==
    { << >>,
      << MilestoneUpdate(UnknownMilestoneId, Unset, Some(TRUE)) >>,
      << MilestoneUpdate(CustomMilestoneId, Some(9), Unset) >>,
      << MilestoneUpdate(UnknownMilestoneId, Unset, Some(TRUE)),
         MilestoneUpdate(CustomMilestoneId, Some(9), Unset) >> }

PatchTasks ==
    \E task_updates \in PatchTaskBatches : \E status \in {Unset, Some("on_hold")} :
        UpdateProject(CustomProjectId,
            [NoUpdate EXCEPT !.tasks = Some(task_updates), !.status = status])

PatchMilestones ==
    \E milestone_updates \in PatchMilestoneBatches :
        \E tasks \in {Unset, Some(<< StatusEdit(CustomTaskId(1), "in_progress") >>)} :
            UpdateProject(CustomProjectId,
                [NoUpdate EXCEPT !.milestones = Some(milestone_updates), !.tasks = tasks])

PatchStart ==
    \E start_date \in {0, 5} :
        UpdateProject(CustomProjectId, [NoUpdate EXCEPT !.start_date = Some(start_date)])

PatchTemplate ==
    \E template_id \in {"custom", "missing", ""} :
        UpdateProject(CustomProjectId, [NoUpdate EXCEPT !.template_id = Some(template_id)])

PatchNext == PatchTasks \/ PatchMilestones \/ PatchStart \/ PatchTemplate

SpecPatch == PatchInit /\ [][PatchNext]_vars

(***************************************************************************)
(* Properties of the other request shapes                                  *)
(***************************************************************************)
IsKnownId(list, id) == IndexOfId(list, id) # 0

\* the request carries a task edit or a milestone edit for an id the project lacks
HasUnknownEdit(project, payload) ==
    \/ /\ IsSet(payload.tasks)
       /\ \E k \in 1..Len(payload.tasks[1]) :
              ~IsKnownId(project.tasks, payload.tasks[1][k].id)
    \/ /\ IsSet(payload.milestones)
       /\ \E k \in 1..Len(payload.milestones[1]) :
              ~IsKnownId(project.milestones, payload.milestones[1][k].id)

\* the same request without those edits
WithoutUnknownEdits(project, payload) ==
    LET KnownTask(task_update) == IsKnownId(project.tasks, task_update.id)
        KnownMilestone(milestone_update) ==
            IsKnownId(project.milestones, milestone_update.id)
    IN [payload EXCEPT
           !.tasks = IF IsSet(@) THEN Some(SelectSeq(@[1], KnownTask)) ELSE @,
           !.milestones = IF IsSet(@) THEN Some(SelectSeq(@[1], KnownMilestone)) ELSE @]

\* C12: a call with a task edit or a milestone edit for an unknown id raises no
\* error, and leaves the project and the notification log as the same call without
\* those edits leaves them: the unknown edit changes and adds nothing, the other
\* edits are applied
C12_UnknownIdsAreSkipped ==
    [][(/\ call'.op = "update_project"
        /\ call'.project_id \in 1..Len(projects)
        /\ ~IsSet(call'.payload.template_id)
        /\ HasUnknownEdit(projects[call'.project_id], call'.payload))
       => LET before == projects[call'.project_id]
              clean == update_project(templates, task_notifications, before,
                           WithoutUnknownEdits(before, call'.payload), call'.at)
          IN /\ call'.result = "ok"
             /\ clean.error = "ok"
             /\ projects'[call'.project_id] = clean.project
             /\ task_notifications' = clean.log]_vars

\* the request carries a template re-application, a start date, task edits or
\* milestone edits
CarriesPlanChange(payload) ==
    \/ IsSet(payload.template_id) /\ payload.template_id[1] # ""
    \/ IsSet(payload.start_date)
    \/ IsSet(payload.tasks)
    \/ IsSet(payload.milestones)

ExpectedStatus(tasks) ==
    IF \A i \in 1..Len(tasks) : tasks[i].status = "done" THEN "completed"
    ELSE IF \E i \in 1..Len(tasks) : tasks[i].status \in {"in_progress", "review", "done"}
    THEN "in_progress"
    ELSE "planning"

\* C13: after a returned call that carries a plan change and no status, the project
\* status is completed when all tasks are done, else in_progress when some task is
\* in_progress, review or done, else planning; a supplied status is stored as given
C13_StatusDerivedUnlessSupplied ==
    UpdateReturned =>
        LET project == projects[call.project_id]
        IN /\ IsSet(call.payload.status) => project.status = call.payload.status[1]
           /\ (~IsSet(call.payload.status) /\ CarriesPlanChange(call.payload))
                  => project.status = ExpectedStatus(project.tasks)

\* task edits without status completed the last open tasks: the project is completed
C13_Witness ==
    /\ UpdateReturned
    /\ ~IsSet(call.payload.status)
    /\ IsSet(call.payload.tasks)
    /\ call.completed_ids # << >>
    /\ projects[call.project_id].status = "completed"

\* tasks in declaration order: A done, B todo without prerequisites, C todo after B
HeadDoneShape(tasks) ==
    /\ Len(tasks) = 3
    /\ tasks[1].status = "done"
    /\ tasks[2].status = "todo" /\ tasks[2].dependencies = {}
    /\ tasks[3].status = "todo" /\ tasks[3].dependencies = {tasks[2].id}

\* C14: in a project A (done), B (todo, no prerequisites, second), C (todo, after B),
\* a call that marks A done starts neither B nor C: both stay todo and no
\* auto_started notification is appended
C14_MarkingDoneHeadStartsNothing ==
    [][(/\ call'.op = "update_project"
        /\ call'.project_id \in 1..Len(projects)
        /\ HeadDoneShape(projects[call'.project_id].tasks)
        /\ call'.payload.tasks =
               Some(<< StatusEdit(projects[call'.project_id].tasks[1].id, "done") >>)
        /\ ~IsSet(call'.payload.template_id))
       => /\ call'.result = "ok"
          /\ projects'[call'.project_id].tasks[2].status = "todo"
          /\ projects'[call'.project_id].tasks[3].status = "todo"
          /\ call'.auto_started_ids = << >>
          /\ \A n \in (Len(task_notifications) + 1)..Len(task_notifications') :
                 task_notifications'[n].type # "auto_started"]_vars

\* the first call marked the done head of the project done again
C14_Witness ==
    /\ UpdateReturned
    /\ call.at = 1
    /\ templates["custom"] = HeadDoneTemplate
    /\ call.payload.tasks = Some(<< StatusEdit(CustomTaskId(1), "done") >>)
    /\ HeadDoneShape(projects[CustomProjectId].tasks)
    /\ task_notifications = << >>

(***************************************************************************)
(* create_client_with_projects, one step per iteration of `while pending`  *)
(***************************************************************************)
\* the iteration, were a pass without progress followed by another pass
WhileIterationNoProgressCheck(tpls, known_names, client_id, st) ==
    ResolvePass(tpls, known_names, client_id, st.pending, 1,
        [st EXCEPT !.progress_made = FALSE])

\* one iteration of `while pending`: a pass over list(pending), then the
\* progress_made test
WhileIteration(tpls, known_names, client_id, st) ==
    LET after == ResolvePass(tpls, known_names, client_id, st.pending, 1,
                     [st EXCEPT !.progress_made = FALSE])
    IN IF after.error = "ok" /\ ~after.progress_made
       THEN [after EXCEPT !.error = "unresolved"]
       ELSE after

PassSetups ==
    { ProjectSetup(n, t, 0, a) :
        n \in {"P", "Q"}, t \in {"branding", "website"},
        a \in {None, Some("P"), Some("Q"), Some("R")} }

PassBatches == UNION { [1..n -> PassSetups] : n \in 1..MaxSetups }

SetupNamesOf(setups) == {setups[i].name : i \in 1..Len(setups)}

\* POST /clients with a validated ClientCreateRequest in flight
PassInit ==
    /\ templates = DEFAULT_TEMPLATES
    /\ projects = SeedProjects
    /\ clients = SeedClients
    /\ task_notifications = << >>
    /\ clock = 0
    /\ \E setups \in PassBatches :
           call = [op |-> "create_client_with_projects", setups |-> setups,
                   result |-> "pending", passes |-> 0, unresolved |-> {},
                   st |-> [pending |-> << >>, scheduled_completion |-> << >>,
                           projects |-> SeedProjects, created_projects |-> << >>,
                           progress_made |-> FALSE, error |-> "ok"]]

\* lines 570-602: the setups are copied and wired, the loop state is set up
BeginResolve ==
    /\ call.op = "create_client_with_projects" /\ call.result = "pending"
    /\ call' = [call EXCEPT !.result = "resolving",
                            !.st.pending = WireBranding(CopySetups(call.setups)),
                            !.st.projects = projects]
    /\ UNCHANGED <<templates, projects, clients, task_notifications, clock>>

\* lines 604-648: one iteration of `while pending`
ResolverIteration ==
    /\ call.op = "create_client_with_projects" /\ call.result = "resolving"
    /\ call.st.pending # << >>
    /\ LET after == WhileIteration(templates, SetupNamesOf(call.setups),
                        Len(clients) + 1, call.st)
       IN /\ projects' = after.projects
          /\ call' = [call EXCEPT
                         !.st = after,
                         !.passes = @ + 1,
                         !.result = IF after.error = "ok" THEN "resolving"
                                    ELSE after.error,
                         !.unresolved = IF after.error = "unresolved"
                                        THEN SetupNamesOf(after.pending) ELSE {}]
    /\ UNCHANGED <<templates, clients, task_notifications, clock>>

\* lines 650-652: the loop is left, the client is stored
FinishResolve ==
    /\ call.op = "create_client_with_projects" /\ call.result = "resolving"
    /\ call.st.pending = << >>
    /\ clients' = Append(clients, "client")
    /\ call' = [call EXCEPT !.result = "ok"]
    /\ UNCHANGED <<templates, projects, task_notifications, clock>>

PassNext == BeginResolve \/ ResolverIteration \/ FinishResolve

SpecPasses == PassInit /\ [][PassNext]_vars

ResolverEnded == call.result \in {"ok", "unknown_project", "unresolved"}

\* two setups start after each other, or one starts after itself, setup names
\* being distinct and every start-after name being one of them
StartAfterCycle(setups) ==
    /\ \A i, j \in 1..Len(setups) : setups[i].name = setups[j].name => i = j
    /\ \A i \in 1..Len(setups) :
           Truthy(setups[i].start_after_name)
               => setups[i].start_after_name[1] \in SetupNamesOf(setups)
    /\ \E i, j \in 1..Len(setups) :
           /\ setups[i].start_after_name = Some(setups[j].name)
           /\ setups[j].start_after_name = Some(setups[i].name)

\* C15: every iteration of the resolver either takes at least one setup out of
\* pending or ends the call with the scheduling error that names the pending
\* setups (or with the unknown-name error), so there are never more iterations
\* than setups; a batch with a start-after cycle ends in the scheduling error
C15_ResolverTerminates ==
    /\ [][(call.result = "resolving" /\ call'.passes = call.passes + 1)
          => \/ /\ call'.result = "resolving"
                /\ Len(call'.st.pending) < Len(call.st.pending)
             \/ /\ call'.result = "unresolved"
                /\ call'.unresolved = SetupNamesOf(call.st.pending)
                /\ call'.unresolved # {}
             \/ call'.result = "unknown_project"]_vars
    /\ [](call.op = "create_client_with_projects" => call.passes <= Len(call.setups))
    /\ [](ResolverEnded /\ StartAfterCycle(call.setups) => call.result = "unresolved")

\* two setups that start after each other ended in the scheduling error
C15_Witness ==
    /\ call.op = "create_client_with_projects"
    /\ Len(call.setups) = 2
    /\ call.setups[1].start_after_name = Some(call.setups[2].name)
    /\ call.setups[2].start_after_name = Some(call.setups[1].name)
    /\ call.setups[1].name # call.setups[2].name
    /\ call.result = "unresolved"
    /\ call.unresolved = {"P", "Q"}
    /\ call.passes = 1

(***************************************************************************)
(* Further properties of the plans build_plan returns                      *)
(***************************************************************************)
\* C16: in every plan build_plan returns, each id in a task's dependency list is
\* the id of another task of the plan, and the task built from a blueprint depends
\* on exactly the tasks built from the blueprints it names
C16_DependenciesArePlanTasks ==
    PlanReturned =>
        LET tasks == call.result.tasks
            template == templates[call.template_id]
        IN \A i \in 1..Len(tasks) :
               /\ tasks[i].dependencies \subseteq
                      {tasks[j].id : j \in (1..Len(tasks)) \ {i}}
               /\ tasks[i].dependencies =
                      {tasks[j].id : j \in {k \in 1..Len(tasks) :
                          template.tasks[k].name \in template.tasks[i].depends_on}}

\* length of the longest chain of prerequisites of a task, followed for at most
\* n links
RECURSIVE DependencyDepth(_, _, _)
DependencyDepth(tasks, i, n) ==
    LET prerequisites == {j \in 1..Len(tasks) : tasks[j].id \in tasks[i].dependencies}
    IN IF n = 0 \/ prerequisites = {} THEN 0
       ELSE 1 + SetMax({DependencyDepth(tasks, j, n - 1) : j \in prerequisites})

\* C17 as stated: of any two tasks of a plan, the one at greater dependency depth
\* is never due earlier than the one at lesser depth
C17_DueMonotoneInDepth ==
    PlanReturned =>
        LET tasks == call.result.tasks
        IN \A i, j \in 1..Len(tasks) :
               DependencyDepth(tasks, i, Len(tasks)) > DependencyDepth(tasks, j, Len(tasks))
                   => tasks[i].due_date[1] >= tasks[j].due_date[1]

\* C17 amended: in a plan built from a template with distinct blueprint names,
\* every task is due later than each task of its dependency list
C17_DueAfterPrerequisites ==
    (PlanReturned /\ ~HasDuplicateNames(templates[call.template_id])) =>
        LET tasks == call.result.tasks
        IN \A i, j \in 1..Len(tasks) :
               tasks[j].id \in tasks[i].dependencies
                   => tasks[i].due_date[1] > tasks[j].due_date[1]

\* a plan with a task that waits for two prerequisites due on different days
C17_Witness ==
    /\ PlanReturned
    /\ ~HasDuplicateNames(templates[call.template_id])
    /\ \E i, j, k \in 1..Len(call.result.tasks) :
           /\ {call.result.tasks[j].id, call.result.tasks[k].id}
                  \subseteq call.result.tasks[i].dependencies
           /\ call.result.tasks[j].due_date[1] < call.result.tasks[k].due_date[1]
           /\ call.result.tasks[k].due_date[1] < call.result.tasks[i].due_date[1]

(***************************************************************************)
(* Notifications and dependency lists after update_project                 *)
(***************************************************************************)
\* the tasks whose status some edit of the list changed into in_progress
ChangedIntoInProgress(tasks, task_updates) ==
    {task_updates[k].id : k \in {e \in 1..Len(task_updates) :
        /\ IsKnownId(tasks, task_updates[e].id)
        /\ task_updates[e].status = Some("in_progress")
        /\ PriorStatus(tasks, task_updates, e) # "in_progress"}}

\* C18: a returned call appends exactly one start_confirmation notification, with
\* requires_confirmation and allow_start_date_edit true, for each task whose status
\* a task edit of the call changed into in_progress, none for any other task, and
\* never more than one notification for the same task
C18_OneStartConfirmationPerStartedTask ==
    [][(/\ call'.op = "update_project"
        /\ call'.result = "ok"
        /\ call'.project_id \in 1..Len(projects))
       => LET before == PlanOrShift(templates, projects[call'.project_id],
                                    call'.payload).tasks
              task_updates == IF IsSet(call'.payload.tasks) THEN call'.payload.tasks[1]
                              ELSE << >>
              started == ChangedIntoInProgress(before, task_updates)
              appended == SubSeq(task_notifications', Len(task_notifications) + 1,
                                 Len(task_notifications'))
              About(id) == {n \in 1..Len(appended) : appended[n].task_id = id}
              Confirmations(id) ==
                  {n \in About(id) : appended[n].type = "start_confirmation"}
          IN \A id \in {before[i].id : i \in 1..Len(before)} \cup started :
                 /\ Cardinality(Confirmations(id)) = IF id \in started THEN 1 ELSE 0
                 /\ \A n \in Confirmations(id) :
                        /\ appended[n].requires_confirmation
                        /\ appended[n].allow_start_date_edit
                 /\ Cardinality(About(id)) <= 1]_vars

\* C19: every id in the dependency list of every task of a stored project is the id
\* of a task of the same project
C19_DependenciesStayInProject ==
    \A p \in 1..Len(projects) : \A i \in 1..Len(projects[p].tasks) :
        projects[p].tasks[i].dependencies
            \subseteq {projects[p].tasks[j].id : j \in 1..Len(projects[p].tasks)}

(***************************************************************************)
(* services/data.py : project_tracker and project_portfolio (health)       *)
(***************************************************************************)
\* the latest day a tracker or a portfolio is read
MaxReadNow == 6

\* project_tracker, were a task due on the day of the read already late
is_lateDueToday(task, now) ==
    /\ ~IsNone(task.due_date)
    /\ task.due_date[1] <= now
    /\ task.status # "done"

\* project_tracker: is_late of a task
is_late(task, now) ==
    /\ ~IsNone(task.due_date)
    /\ task.due_date[1] < now
    /\ task.status # "done"

\* project_tracker, were a task due within 3 days already at risk
will_be_lateWithinThree(task, now) ==
    /\ ~IsNone(task.due_date)
    /\ task.status \in {"todo", "in_progress", "review"}
    /\ ~is_late(task, now)
    /\ task.due_date[1] - now <= 3

\* project_tracker: will_be_late of a task
will_be_late(task, now) ==
    /\ ~IsNone(task.due_date)
    /\ task.status \in {"todo", "in_progress", "review"}
    /\ ~is_late(task, now)
    /\ task.due_date[1] - now <= 2

\* project_tracker: the alerts appended in the task loop, one per late task and,
\* else, one per task that will be late
TaskAlerts(tasks, now) ==
    LET Alert(task) ==
            [task_id |-> task.id, due_date |-> task.due_date,
             severity |-> IF is_late(task, now) THEN "late"
                          ELSE IF will_be_late(task, now) THEN "at_risk"
                          ELSE "none"]
        Raised_(alert) == alert.severity # "none"
    IN SelectSeq([i \in 1..Len(tasks) |-> Alert(tasks[i])], Raised_)

\* project_tracker: one timeline entry per task
TaskTimeline(tasks, now) ==
    [i \in 1..Len(tasks) |->
        [task_id |-> tasks[i].id, status |-> tasks[i].status,
         due_date |-> tasks[i].due_date, is_late |-> is_late(tasks[i], now),
         will_be_late |-> will_be_late(tasks[i], now)]]

\* project_tracker: the late task count, the health of the project, the alerts and
\* the timeline
project_tracker(store_projects, project_id, now) ==
    IF project_id \notin 1..Len(store_projects)
    THEN [error |-> "not_found", late_tasks |-> 0, health |-> "none",
          alerts |-> << >>, timeline |-> << >>]
    ELSE LET project == store_projects[project_id]
             late_tasks == Cardinality({i \in 1..Len(project.tasks) :
                                           is_late(project.tasks[i], now)})
         IN [error |-> "ok", late_tasks |-> late_tasks,
             health |-> IF project.status = "completed" THEN "completed"
                        ELSE IF project.status = "on_hold" THEN "blocked"
                        ELSE IF late_tasks > 0 THEN "at_risk"
                        ELSE "on_track",
             alerts |-> TaskAlerts(project.tasks, now),
             timeline |-> TaskTimeline(project.tasks, now)]

\* project_portfolio: one entry per stored project, here keyed by the project id;
\* the order of the returned list (latest update first) is not part of the entries
project_portfolio(store_projects, now) ==
    [p \in 1..Len(store_projects) |->
        LET project == store_projects[p]
            late_tasks == Cardinality({i \in 1..Len(project.tasks) :
                              /\ ~IsNone(project.tasks[i].due_date)
                              /\ project.tasks[i].due_date[1] < now
                              /\ project.tasks[i].status # "done"})
        IN [project_id |-> project.id, status |-> project.status,
            late_tasks |-> late_tasks,
            health |-> IF project.status = "completed" THEN "completed"
                       ELSE IF project.status = "on_hold" THEN "blocked"
                       ELSE IF late_tasks > 0 THEN "at_risk"
                       ELSE "on_track"]]

\* the task edit lists submitted before the reads
HealthTaskBatches ==
    { << StatusEdit(CustomTaskId(1), "done") >>,
      << StatusEdit(CustomTaskId(1), "done"), StatusEdit(CustomTaskId(2), "done"),
         StatusEdit(CustomTaskId(3), "done") >>,
      << TaskUpdate(CustomTaskId(1), Unset, Unset, Some(None), Unset) >> }

HealthEditTasks ==
    \E task_updates \in HealthTaskBatches :
        UpdateProject(CustomProjectId, [NoUpdate EXCEPT !.tasks = Some(task_updates)])

HealthSetStatus ==
    \E status \in {"on_hold", "completed", "in_progress"} :
        UpdateProject(CustomProjectId, [NoUpdate EXCEPT !.status = Some(status)])

\* GET /projects/{project_id}/tracker on day now
ReadTracker ==
    \E project_id \in 1..(Len(projects) + 1) : \E now \in clock..MaxReadNow :
        LET tracker == project_tracker(projects, project_id, now)
        IN /\ clock' = now
           /\ call' = [op |-> "project_tracker", project_id |-> project_id, at |-> now,
                       result |-> tracker.error, late_tasks |-> tracker.late_tasks,
                       health |-> tracker.health, alerts |-> tracker.alerts,
                       timeline |-> tracker.timeline]
           /\ UNCHANGED <<templates, projects, clients, task_notifications>>

\* GET /projects/portfolio on day now
ReadPortfolio ==
    \E now \in clock..MaxReadNow :
        /\ clock' = now
        /\ call' = [op |-> "project_portfolio", at |-> now, result |-> "ok",
                    portfolio |-> project_portfolio(projects, now)]
        /\ UNCHANGED <<templates, projects, clients, task_notifications>>

HealthNext == HealthEditTasks \/ HealthSetStatus \/ ReadTracker \/ ReadPortfolio

SpecHealth == PatchInit /\ [][HealthNext]_vars

\* a task with a due date before now that is not done
HasLateTask(project, now) ==
    \E i \in 1..Len(project.tasks) :
        /\ project.tasks[i].due_date # None
        /\ project.tasks[i].due_date[1] < now
        /\ project.tasks[i].status # "done"

ExpectedHealth(project, now) ==
    CASE project.status = "completed" -> "completed"
      [] project.status # "completed" /\ project.status = "on_hold" -> "blocked"
      [] project.status \notin {"completed", "on_hold"} /\ HasLateTask(project, now)
             -> "at_risk"
      [] OTHER -> "on_track"

\* C20: the tracker and every portfolio entry report completed for a completed
\* project, else blocked for one on hold, else at_risk when a task is late (due
\* before now and not done), else on_track; for the same project and the same now
\* the tracker and the portfolio report the same health
C20_HealthRule ==
    /\ (call.op = "project_tracker" /\ call.result = "ok")
           => call.health = ExpectedHealth(projects[call.project_id], call.at)
    /\ call.op = "project_portfolio"
           => \A p \in 1..Len(projects) :
                  call.portfolio[p].health = ExpectedHealth(projects[p], call.at)
    /\ \A p \in 1..Len(projects) : \A now \in 0..MaxReadNow :
           project_tracker(projects, p, now).health
               = project_portfolio(projects, now)[p].health

\* the tracker reports at_risk for a project with a done task past its due date and
\* an open task past its due date, while another open task is due on the day read
C20_Witness ==
    /\ call.op = "project_tracker"
    /\ call.result = "ok"
    /\ call.health = "at_risk"
    /\ call.late_tasks = 1
    /\ \E i, j, k \in 1..Len(projects[call.project_id].tasks) :
           LET tasks == projects[call.project_id].tasks
           IN /\ tasks[i].status = "done" /\ tasks[i].due_date # None
              /\ tasks[i].due_date[1] < call.at
              /\ tasks[j].status # "done" /\ tasks[j].due_date # None
              /\ tasks[j].due_date[1] < call.at
              /\ tasks[k].status # "done" /\ tasks[k].due_date = Some(call.at)

(***************************************************************************)
(* Two PATCH /projects/{project_id} requests in flight at once.  The route  *)
(* is a plain `def`, so each request runs on its own worker thread; the     *)
(* store takes no lock.  A call reads self.projects at line 757, works on   *)
(* its own copies, appends its notifications and assigns self.projects at   *)
(* line 894; the threads can be switched between these steps.               *)
(***************************************************************************)
Threads == {1, 2}

\* the task edit lists the two requests carry
ConcurrentBatches ==
    { << StatusEdit(CustomTaskId(1), "done") >>,
      << StatusEdit(CustomTaskId(2), "done") >>,
      << StatusEdit(CustomTaskId(3), "in_progress") >>,
      << StatusEdit(CustomTaskId(1), "done"), StatusEdit(CustomTaskId(2), "done") >> }

InFlight(task_updates, project) ==
    [pc |-> "submitted", payload |-> [NoUpdate EXCEPT !.tasks = Some(task_updates)],
     at |-> 0, project |-> project]

\* both requests arrive
SubmitBoth ==
    /\ call.op = "none"
    /\ \E first, second \in ConcurrentBatches :
           call' = [op |-> "concurrent_update_project",
                    project_id |-> CustomProjectId,
                    before |-> projects[CustomProjectId],
                    requests |-> << InFlight(first, projects[CustomProjectId]),
                                    InFlight(second, projects[CustomProjectId]) >>]
    /\ UNCHANGED <<templates, projects, clients, task_notifications, clock>>

\* lines 757-765: project = self.projects.get(project_id), now = datetime.utcnow()
ReadProject ==
    /\ call.op = "concurrent_update_project"
    /\ \E t \in Threads :
           /\ call.requests[t].pc = "submitted"
           /\ clock' = clock + 1
           /\ call' = [call EXCEPT !.requests[t].pc = "read",
                                   !.requests[t].at = clock + 1,
                                   !.requests[t].project = projects[call.project_id]]
    /\ UNCHANGED <<templates, projects, clients, task_notifications>>

\* lines 767-882: the edits and the cascade on the copy read, then the
\* notifications appended to the shared log
EmitNotifications ==
    /\ call.op = "concurrent_update_project"
    /\ \E t \in Threads :
           /\ call.requests[t].pc = "read"
           /\ task_notifications' =
                  update_project(templates, task_notifications, call.requests[t].project,
                                 call.requests[t].payload, call.requests[t].at).log
           /\ call' = [call EXCEPT !.requests[t].pc = "emitted"]
    /\ UNCHANGED <<templates, projects, clients, clock>>

\* lines 884-895: self.projects[project_id] = updated_project
StoreProject ==
    /\ call.op = "concurrent_update_project"
    /\ \E t \in Threads :
           /\ call.requests[t].pc = "emitted"
           /\ projects' = [projects EXCEPT ![call.project_id] =
                  update_project(templates, task_notifications, call.requests[t].project,
                                 call.requests[t].payload, call.requests[t].at).project]
           /\ call' = [call EXCEPT !.requests[t].pc = "stored"]
    /\ UNCHANGED <<templates, clients, task_notifications, clock>>

ConcurrentNext == SubmitBoth \/ ReadProject \/ EmitNotifications \/ StoreProject

SpecConcurrent == PatchInit /\ [][ConcurrentNext]_vars

\* the project the two calls leave when the call of thread a runs to its end before
\* the call of thread b starts
OneAfterTheOther(a, b) ==
    update_project(templates, << >>,
        update_project(templates, << >>, call.before, call.requests[a].payload,
                       call.requests[a].at).project,
        call.requests[b].payload, call.requests[b].at).project

\* C21: once two concurrent calls on the same project have both returned, the stored
\* project is the one that the two calls executed one after the other, in one order
\* or the other, leave: the task edits of both calls are in it
C21_ConcurrentUpdatesSerialize ==
    (/\ call.op = "concurrent_update_project"
     /\ \A t \in Threads : call.requests[t].pc = "stored")
        => projects[call.project_id] \in {OneAfterTheOther(1, 2), OneAfterTheOther(2, 1)}

(***************************************************************************)
(* Properties of the cascade                                               *)
(***************************************************************************)
\* the cascade of the last call started the task at position i
AutoStarted(i) ==
    /\ call.edited_tasks[i].status = "todo"
    /\ call.edited_tasks[i].id \in SeqSet(call.auto_started_ids)
    /\ projects[call.project_id].tasks[i].status = "in_progress"

\* C22: the cascade starts a todo task that declares prerequisites only if every
\* declared prerequisite is done and at least one of them changed to done in this
\* call; a task whose prerequisites were all done already stays todo when the call
\* completes an unrelated task
C22_CascadeNeedsAllPrerequisitesDone ==
    UpdateReturned =>
        \A i \in 1..Len(call.edited_tasks) :
            (call.edited_tasks[i].dependencies # {} /\ AutoStarted(i)) =>
                /\ \A d \in call.edited_tasks[i].dependencies :
                       StatusAfterEdits(d) = "done"
                /\ \E d \in call.edited_tasks[i].dependencies :
                       d \in SeqSet(call.completed_ids)

\* C23: a todo task without prerequisites is started by the cascade exactly when it
\* is not the first task, every task before it is done and one of those changed to
\* done in this call
C23_NoPrerequisitesFollowsOrder ==
    UpdateReturned =>
        \A i \in 1..Len(call.edited_tasks) :
            (call.edited_tasks[i].status = "todo" /\ call.edited_tasks[i].dependencies = {})
                => (AutoStarted(i) <=>
                       /\ i # 1
                       /\ \A j \in 1..(i - 1) : call.edited_tasks[j].status = "done"
                       /\ \E j \in 1..(i - 1) :
                              call.edited_tasks[j].id \in SeqSet(call.completed_ids))

\* the second task, without prerequisites, was started by the completion of the first
C23_Witness ==
    /\ UpdateReturned
    /\ Len(call.edited_tasks) >= 2
    /\ call.edited_tasks[2].dependencies = {}
    /\ AutoStarted(2)
    /\ call.completed_ids = << call.edited_tasks[1].id >>

\* some edit of the list supplies a start date for the task
SuppliesStartDate(task_updates, id) ==
    \E k \in 1..Len(task_updates) :
        task_updates[k].id = id /\ IsSet(task_updates[k].start_date)

\* C24: in a call that edits tasks, for a task no edit of which supplies start_date:
\* a start date the task already has is kept, by the edits and by the cascade; a
\* task without start date gets the day of the call when an edit changes its status
\* into in_progress, and stays without one when neither an edit nor the cascade
\* starts it
C24_FirstStartDateWins ==
    [][(/\ call'.op = "update_project"
        /\ call'.result = "ok"
        /\ call'.project_id \in 1..Len(projects)
        /\ IsSet(call'.payload.tasks)
        /\ ~IsSet(call'.payload.template_id)
        /\ ~IsSet(call'.payload.start_date))
       => LET before == projects[call'.project_id].tasks
              after == projects'[call'.project_id].tasks
              task_updates == call'.payload.tasks[1]
          IN \A i \in 1..Len(before) :
                 ~SuppliesStartDate(task_updates, before[i].id) =>
                     IF before[i].start_date # None
                     THEN after[i].start_date = before[i].start_date
                     ELSE IF before[i].id \in ChangedIntoInProgress(before, task_updates)
                     THEN after[i].start_date = Some(call'.at)
                     ELSE IF before[i].id \in SeqSet(call'.auto_started_ids)
                     THEN after[i].start_date = Some(call'.at)
                     ELSE after[i].start_date = None]_vars

\* a task whose start date an earlier call had cleared was set in progress by an
\* edit without start date and carries the day of the call, not its planned day
C24_Witness ==
    /\ UpdateReturned
    /\ call.payload.tasks = Some(<< StatusEdit(CustomTaskId(2), "in_progress") >>)
    /\ call.manual_started_ids = << CustomTaskId(2) >>
    /\ projects[CustomProjectId].tasks[2].start_date = Some(call.at)
    /\ build_plan(templates, "custom", 0, CustomProjectId, 0).tasks[2].start_date
           # Some(call.at)

(***************************************************************************)
(* Start dates the resolver gives, for batches whose setups bear distinct  *)
(* names                                                                   *)
(***************************************************************************)
DistinctNames(setups) ==
    \A i, j \in 1..Len(setups) : i # j => setups[i].name # setups[j].name

\* position of the setup that bears the name, 0 when there is none
SetupNamed(setups, name) ==
    IF \E i \in 1..Len(setups) : setups[i].name = name
    THEN CHOOSE i \in 1..Len(setups) : setups[i].name = name
    ELSE 0

\* the name the setup asks to start after, None when it asks for none
RequestedReference(setups, i) ==
    IF setups[i].start_after_name # None /\ setups[i].start_after_name # Some("")
    THEN setups[i].start_after_name
    ELSE None

\* the same, with the branding rule: a website setup that asks for none starts after
\* the first branding setup of the batch when that one has a name
RuledReference(setups, i) ==
    LET brandings == {b \in 1..Len(setups) : setups[b].template_id = "branding"}
    IN IF setups[i].start_after_name = None /\ setups[i].template_id = "website"
          /\ brandings # {} /\ setups[SetMin(brandings)].name # ""
       THEN Some(setups[SetMin(brandings)].name)
       ELSE RequestedReference(setups, i)

\* following the references from setup i ends within n steps at a setup without one
RECURSIVE ChainEnds(_, _, _, _)
ChainEnds(setups, Reference(_, _), i, n) ==
    IF Reference(setups, i) = None THEN TRUE
    ELSE IF n = 0 \/ SetupNamed(setups, Reference(setups, i)[1]) = 0 THEN FALSE
    ELSE ChainEnds(setups, Reference, SetupNamed(setups, Reference(setups, i)[1]), n - 1)

\* every reference names a setup of the batch and the references contain no cycle
Resolvable(setups, Reference(_, _)) ==
    \A i \in 1..Len(setups) : ChainEnds(setups, Reference, i, Len(setups))

\* the call created one project per setup, each started on the later of its
\* requested day and the end of the project of the setup it refers to
OneProjectPerSetup(Reference(_, _)) ==
    /\ call.result = "ok"
    /\ Len(call.created_projects) = Len(call.setups)
    /\ \A i \in 1..Len(call.setups) :
           \E c \in SeqRange(call.created_projects) :
               /\ c.setup = i
               /\ projects[c.id].name = call.setups[i].name
               /\ projects[c.id].start_date =
                      IF Reference(call.setups, i) = None THEN call.setups[i].start_date
                      ELSE LET d == CHOOSE d \in SeqRange(call.created_projects) :
                                        d.setup = SetupNamed(call.setups,
                                                      Reference(call.setups, i)[1])
                           IN SetMax({call.setups[i].start_date,
                                      _calculate_project_end(projects[d.id].tasks,
                                          projects[d.id].milestones)[1]})

\* C25 as stated: a batch whose requested start-after names all exist in the batch
\* and contain no cycle gets one project per setup, in any order of the setups,
\* each started on max(requested start, completion of the project it asks to start
\* after), or on its requested start when it asks for none
C25_StartIsMaxOfRequestedAndDependency ==
    (Resolved /\ DistinctNames(call.setups) /\ Resolvable(call.setups, RequestedReference))
        => OneProjectPerSetup(RequestedReference)

\* C25 amended: the same with the branding rule counted among the references
C25_StartIsMaxWithBrandingRule ==
    (Resolved /\ DistinctNames(call.setups) /\ Resolvable(call.setups, RuledReference))
        => OneProjectPerSetup(RuledReference)

\* the first setup asks to start after the second and is moved behind its end
C25_Witness ==
    /\ Resolved /\ call.result = "ok"
    /\ Len(call.setups) = 2
    /\ DistinctNames(call.setups)
    /\ call.setups[1].start_after_name = Some(call.setups[2].name)
    /\ call.setups[2].start_after_name = None
    /\ call.setups[1].template_id = "consulting"
    /\ \E c, d \in SeqRange(call.created_projects) :
           /\ c.setup = 1 /\ d.setup = 2
           /\ projects[c.id].start_date = projects[d.id].end_date[1]
           /\ projects[c.id].start_date > call.setups[1].start_date

(***************************************************************************)
(* PATCH /projects/{project_id} with a new start date, on any stored       *)
(* project                                                                 *)
(***************************************************************************)
MaxShift == 2

\* the task edit lists submitted between the shifts
ShiftTaskBatches ==
    { << TaskUpdate(CustomTaskId(2), Unset, Some(None), Unset, Unset) >>,
      << StatusEdit(CustomTaskId(1), "done") >>,
      << TaskUpdate(CustomTaskId(3), Unset, Unset, Some(None), Unset) >> }

ShiftStart ==
    \E project_id \in 1..Len(projects) : \E delta \in (0 - MaxShift)..MaxShift :
        UpdateProject(project_id,
            [NoUpdate EXCEPT !.start_date = Some(projects[project_id].start_date + delta)])

ShiftEditTasks ==
    \E task_updates \in ShiftTaskBatches :
        UpdateProject(CustomProjectId, [NoUpdate EXCEPT !.tasks = Some(task_updates)])

ShiftNext == ShiftStart \/ ShiftEditTasks

SpecShift == PatchInit /\ [][ShiftNext]_vars

Moved(date, delta) == IF date = None THEN None ELSE Some(date[1] + delta)

\* the tasks and milestones of `after` are those of `before`, in the same order, with
\* every date that is set moved by delta and nothing else changed
DatesMoved(before, after, delta) ==
    /\ Len(after.tasks) = Len(before.tasks)
    /\ \A i \in 1..Len(before.tasks) :
           /\ after.tasks[i].id = before.tasks[i].id
           /\ after.tasks[i].name = before.tasks[i].name
           /\ after.tasks[i].status = before.tasks[i].status
           /\ after.tasks[i].dependencies = before.tasks[i].dependencies
           /\ after.tasks[i].start_date = Moved(before.tasks[i].start_date, delta)
           /\ after.tasks[i].due_date = Moved(before.tasks[i].due_date, delta)
    /\ Len(after.milestones) = Len(before.milestones)
    /\ \A j \in 1..Len(before.milestones) :
           /\ after.milestones[j].id = before.milestones[j].id
           /\ after.milestones[j].due_date = before.milestones[j].due_date + delta

\* C26: a call that carries only start_date moves every set task start and due date
\* and every milestone due date by the difference to the stored start date, and so
\* the end date; it keeps task ids, order, statuses and dependencies, starts no task
\* and appends no notification; a second call with the former start date restores
\* every date
C26_ShiftMovesAllDates ==
    [][(/\ call'.op = "update_project"
        /\ call'.result = "ok"
        /\ call'.project_id \in 1..Len(projects)
        /\ IsSet(call'.payload.start_date)
        /\ call'.payload = [NoUpdate EXCEPT !.start_date = call'.payload.start_date])
       => LET before == projects[call'.project_id]
              after == projects'[call'.project_id]
              delta == call'.payload.start_date[1] - before.start_date
              back == update_project(templates, task_notifications', after,
                          [NoUpdate EXCEPT !.start_date = Some(before.start_date)],
                          call'.at).project
          IN /\ after.start_date = before.start_date + delta
             /\ DatesMoved(before, after, delta)
             /\ after.end_date = Moved(before.end_date, delta)
             /\ call'.manual_started_ids = << >>
             /\ call'.auto_started_ids = << >>
             /\ task_notifications' = task_notifications
             /\ back.start_date = before.start_date
             /\ DatesMoved(after, back, 0 - delta)
             /\ DatesMoved(before, back, 0)]_vars

(***************************************************************************)
(* services/data.py : velocity and forecast in project_tracker and         *)
(* project_portfolio.  A quotient a / b is kept as the pair <<a, b>>.       *)
(***************************************************************************)
MaxSprints == 2

MaxPoints == 2

\* Sprint, with the fields the velocity code reads
Sprint(id, status, start_date, end_date, completed_points) ==
    [id |-> id, status |-> status, start_date |-> start_date, end_date |-> end_date,
     completed_points |-> completed_points]

\* sum(...) of a list of numbers, from position k on
RECURSIVE SumOver(_, _)
SumOver(values, k) ==
    IF k > Len(values) THEN 0 ELSE values[k] + SumOver(values, k + 1)

\* [Value(x) for x in list]
Each(list, Value(_)) == [i \in 1..Len(list) |-> Value(list[i])]

\* _task_story_points of a task that carries neither story points nor estimated hours
_task_story_points(task) == 1

\* next(sprint with the active sprint id), else next(sprint with status active)
ActiveSprint(sprints, active_sprint_id) ==
    LET by_id == {i \in 1..Len(sprints) : Some(sprints[i].id) = active_sprint_id}
        by_status == {i \in 1..Len(sprints) : sprints[i].status = "active"}
    IN IF active_sprint_id # None /\ by_id # {} THEN Some(sprints[SetMin(by_id)])
       ELSE IF by_status # {} THEN Some(sprints[SetMin(by_status)])
       ELSE None

\* project_tracker, lines 1394-1421: velocity and forecast_completion
TrackerVelocity(project, sprints, active_sprint_id, now) ==
    LET IsCompleted(sprint) == sprint.status = "completed" /\ sprint.completed_points # 0
        Points(sprint) == sprint.completed_points
        Duration(sprint) == SetMax({sprint.end_date - sprint.start_date, 7})
        Story(task) == _task_story_points(task)
        DoneStory(task) == IF task.status = "done" THEN _task_story_points(task) ELSE 0
        completed_sprints == SelectSeq(sprints, IsCompleted)
        velocity == IF completed_sprints # << >>
                    THEN Some(<< SumOver(Each(completed_sprints, Points), 1),
                                 Len(completed_sprints) >>)
                    ELSE None
        remaining_points == SetMax({SumOver(Each(project.tasks, Story), 1)
                                        - SumOver(Each(project.tasks, DoneStory), 1), 0})
        active_sprint == ActiveSprint(sprints, active_sprint_id)
        baseline_end == IF active_sprint # None THEN active_sprint[1].end_date ELSE now
        average_duration_days == << SumOver(Each(completed_sprints, Duration), 1),
                                    Len(completed_sprints) >>
    IN [velocity |-> velocity,
        forecast_completion |->
            IF velocity # None /\ velocity[1][1] > 0
            THEN Some([baseline_end |-> baseline_end,
                       projected_days |->
                           << average_duration_days[1] * remaining_points * velocity[1][2],
                              average_duration_days[2] * velocity[1][1] >>])
            ELSE None]

\* project_portfolio, lines 1227-1254: velocity and forecast_completion
PortfolioVelocity(project, sprints, active_sprint_id, now) ==
    LET Counts(sprint) == sprint.status = "completed" /\ sprint.completed_points # 0
        Points(sprint) == sprint.completed_points
        Duration(sprint) == SetMax({sprint.end_date - sprint.start_date, 7})
        Story(task) == _task_story_points(task)
        DoneStory(task) == IF task.status = "done" THEN _task_story_points(task) ELSE 0
        completed_sprints == SelectSeq(sprints, Counts)
        velocity == IF completed_sprints # << >>
                    THEN Some(<< SumOver(Each(completed_sprints, Points), 1),
                                 Len(completed_sprints) >>)
                    ELSE None
        remaining_points == SetMax({SumOver(Each(project.tasks, Story), 1)
                                        - SumOver(Each(project.tasks, DoneStory), 1), 0})
        active_sprint == ActiveSprint(sprints, active_sprint_id)
        baseline_end == IF active_sprint # None THEN active_sprint[1].end_date ELSE now
        average_duration_days == << SumOver(Each(completed_sprints, Duration), 1),
                                    Len(completed_sprints) >>
    IN [velocity |-> velocity,
        forecast_completion |->
            IF velocity # None /\ velocity[1][1] > 0
            THEN Some([baseline_end |-> baseline_end,
                       projected_days |->
                           << average_duration_days[1] * remaining_points * velocity[1][2],
                              average_duration_days[2] * velocity[1][1] >>])
            ELSE None]

\* the sprint lists a project carries: sprint i starts on day 10 * i
SprintLists ==
    UNION { { [i \in 1..n |-> Sprint(i, choice[i].status, 10 * i,
                                    10 * i + choice[i].length, choice[i].points)] :
              choice \in [1..n -> [status : {"planning", "active", "completed"},
                                   length : {3, 14}, points : 0..MaxPoints]] } :
            n \in 0..MaxSprints }

\* a project of the store with a sprint list and an optional active sprint reference
SprintInit ==
    /\ templates = DEFAULT_TEMPLATES
    /\ projects = SeedProjects
    /\ clients = SeedClients
    /\ task_notifications = << >>
    /\ clock = 0
    /\ \E sprints \in SprintLists : \E active_sprint_id \in {None, Some(1)} :
           \E project_id \in 1..Len(SeedProjects) :
               call = [op |-> "none", project_id |-> project_id, sprints |-> sprints,
                       active_sprint_id |-> active_sprint_id]

ReadTrackerVelocity ==
    /\ call.op # "project_tracker"
    /\ call' = [op |-> "project_tracker", project_id |-> call.project_id,
                sprints |-> call.sprints, active_sprint_id |-> call.active_sprint_id,
                at |-> clock,
                result |-> TrackerVelocity(projects[call.project_id], call.sprints,
                               call.active_sprint_id, clock)]
    /\ UNCHANGED <<templates, projects, clients, task_notifications, clock>>

ReadPortfolioVelocity ==
    /\ call.op # "project_portfolio"
    /\ call' = [op |-> "project_portfolio", project_id |-> call.project_id,
                sprints |-> call.sprints, active_sprint_id |-> call.active_sprint_id,
                at |-> clock,
                result |-> PortfolioVelocity(projects[call.project_id], call.sprints,
                               call.active_sprint_id, clock)]
    /\ UNCHANGED <<templates, projects, clients, task_notifications, clock>>

VelocityNext == ReadTrackerVelocity \/ ReadPortfolioVelocity

SpecVelocity == SprintInit /\ [][VelocityNext]_vars

TrackerRead == call.op = "project_tracker" /\ call.result = "ok"

AlertsFor(task_id, severity) ==
    Cardinality({n \in 1..Len(call.alerts) : /\ call.alerts[n].task_id = task_id
                                             /\ call.alerts[n].severity = severity})

\* C28: in the tracker a task is late exactly when it has a due date before now and
\* is not done, and at risk exactly when it has a due date, is not late, is todo,
\* in_progress or review and is due at most 2 days after now; no task is both, a
\* done task is neither; there is exactly one alert per late task (severity late)
\* and per task at risk (severity at_risk), and no other alert
C28_LateAndAtRiskAlerts ==
    TrackerRead =>
        LET tasks == projects[call.project_id].tasks
            Late(i) == /\ tasks[i].due_date # None
                       /\ tasks[i].due_date[1] < call.at
                       /\ tasks[i].status # "done"
            AtRisk(i) == /\ tasks[i].due_date # None
                         /\ ~Late(i)
                         /\ tasks[i].status \in {"todo", "in_progress", "review"}
                         /\ tasks[i].due_date[1] <= call.at + 2
        IN /\ Len(call.timeline) = Len(tasks)
           /\ \A i \in 1..Len(tasks) :
                  /\ call.timeline[i].task_id = tasks[i].id
                  /\ call.timeline[i].is_late <=> Late(i)
                  /\ call.timeline[i].will_be_late <=> AtRisk(i)
                  /\ ~(call.timeline[i].is_late /\ call.timeline[i].will_be_late)
                  /\ tasks[i].status = "done" =>
                         ~call.timeline[i].is_late /\ ~call.timeline[i].will_be_late
                  /\ AlertsFor(tasks[i].id, "late") = IF Late(i) THEN 1 ELSE 0
                  /\ AlertsFor(tasks[i].id, "at_risk") = IF AtRisk(i) THEN 1 ELSE 0
           /\ Len(call.alerts) = Cardinality({i \in 1..Len(tasks) : Late(i) \/ AtRisk(i)})

\* a read with a late task, a task due in exactly 2 days (at risk), an open task due
\* later (no alert) and a done task past its due date (no alert)
C28_Witness ==
    /\ TrackerRead
    /\ \E i, j, k, l \in 1..Len(projects[call.project_id].tasks) :
           LET tasks == projects[call.project_id].tasks
           IN /\ call.timeline[i].is_late
              /\ tasks[j].due_date = Some(call.at + 2) /\ call.timeline[j].will_be_late
              /\ tasks[k].due_date # None /\ tasks[k].due_date[1] > call.at + 2
              /\ tasks[k].status # "done"
              /\ AlertsFor(tasks[k].id, "late") + AlertsFor(tasks[k].id, "at_risk") = 0
              /\ tasks[l].status = "done" /\ tasks[l].due_date # None
              /\ tasks[l].due_date[1] < call.at
              /\ AlertsFor(tasks[l].id, "late") + AlertsFor(tasks[l].id, "at_risk") = 0

(***************************************************************************)
(* Project codes: projects created by create_client_with_projects and      *)
(* templates re-applied by update_project, on the same store               *)
(***************************************************************************)
MaxProjects == 5

\* POST /clients with the setups of one or two projects, none starting after another
CreateProjects ==
    \E setups \in UNION { [1..n -> { ProjectSetup(name, template_id, 0, None) :
                                         name \in {"P"},
                                         template_id \in {"consulting", "branding"} }] :
                          n \in 1..2 } :
        LET done == ResolveSetups(templates, projects, Len(clients) + 1, setups)
        IN /\ Len(projects) + Len(setups) <= MaxProjects
           /\ projects' = done.projects
           /\ clients' = IF done.error = "ok" THEN Append(clients, "client") ELSE clients
           /\ call' = [op |-> "create_client_with_projects", setups |-> setups,
                       result |-> done.error, created_projects |-> done.created_projects]
           /\ UNCHANGED <<templates, task_notifications, clock>>

\* PATCH /projects/{project_id} with a template_id
ReapplyTemplate ==
    \E project_id \in 1..Len(projects) : \E template_id \in {"consulting", "branding"} :
        UpdateProject(project_id, [NoUpdate EXCEPT !.template_id = Some(template_id)])

CodesNext == CreateProjects \/ ReapplyTemplate

SpecCodes == StoreInit /\ [][CodesNext]_vars

\* C29: no two stored projects have the same code
C29_ProjectCodesUnique ==
    \A p, q \in 1..Len(projects) : p # q => projects[p].code # projects[q].code

\* C30: a project whose status was set to on_hold or cancelled keeps that status
\* across every later returned call that supplies no status
C30_HeldStatusIsKept ==
    [][(/\ call'.op = "update_project"
        /\ call'.result = "ok"
        /\ call'.project_id \in 1..Len(projects)
        /\ projects[call'.project_id].status \in {"on_hold", "cancelled"}
        /\ ~IsSet(call'.payload.status))
       => projects'[call'.project_id].status = projects[call'.project_id].status]_vars

====
